---- MODULE Spec2Model ----
(***************************************************************************)
(* A model of the transaction categorization pipeline of                   *)
(* hcb-bookkeeping-ai-playground (src/index.js and its later variant with  *)
(* id keys and receipt enrichment).                                        *)
(*                                                                         *)
(* A JavaScript string is modelled as a sequence of "characters", each a   *)
(* TLA+ string: the single characters "a", "A", " ", "," and the double    *)
(* quote, or an opaque token (a date, a number, an account name) that      *)
(* holds no whitespace at its ends, no comma, no quote and no upper-case   *)
(* letter that matters to a key.                                           *)
(***************************************************************************)
EXTENDS Integers, Sequences, FiniteSets, TLC

VARIABLES
    \* ---- processTransactions (Spec)
    variant,        \* "composite": src/index.js; "id": the later variant keyed by id
    inputFile,      \* the records csv-parse returns for the input file
    storeExists,    \* existsSync('processed.csv')
    header,         \* the header line of processed.csv, a sequence of column names
    rows,           \* the data lines of processed.csv, each a sequence of field texts
    pc,             \* where the process is; "idle", "done", "failed": not running
    run,            \* the number of runs started
    error,          \* the fault processTransactions rejected with, "none" if none
    transactions,   \* the array loadTransactions returned
    processedTransactions,  \* the Set of keys
    i,              \* index of the transaction of the current loop iteration
    transactionKey, \* const transactionKey
    object,         \* the object of the first generateObject call
    question,       \* const question = questions[0]
    selectedAnswer, \* const selectedAnswer
    categorization, \* the object of the second generateObject call
    accountName,    \* let accountName
    accountId,      \* let accountId
    \* ---- history of the pipeline, read by the properties only
    presented,      \* the questions shown to the human for the current transaction
    calls,          \* classifier calls made for the current transaction
    appendedFor,    \* the indices of the transactions this run appended a line for
    completed,      \* some earlier run returned normally
    doneStore,      \* the store file as that run left it
    \* ---- createTransactionKey, run on its own (SpecKey)
    kT1, kT2,       \* two transaction objects
    kPc,            \* "input" | "keyed"
    kKey1, kKey2,   \* the keys createTransactionKey returned for them
    \* ---- account resolver, run on its own (SpecResolver)
    rAccountId,     \* the accountId argument of getFullAccountName
    rPc,            \* "search" | "walk" | "return" | "done"
    rTop,           \* index of the top-level account being searched
    rCurrent,       \* the node `current` (NullNode for null)
    rParts,         \* the array `parts`
    rResult,        \* the returned string
    \* ---- receipt enrichment of one transaction of the later variant (SpecReceipt)
    receiptUrls,    \* the values of the receipt URL fields of the transaction
    receiptPc,      \* where the process is
    urlField,       \* index of the receipt URL field of the current loop iteration
    extractedContents,  \* transaction[`${urlField}.extracted_contents`] of each field
    cacheFile,      \* test_data/extracted_receipts.json, its object a set of <<receiptId, value>>
    attempts,       \* let attempts
    toolCalled,     \* let toolCalled
    promise,        \* the promise aiExtractReceiptDetails returned: none, pending, resolved
    extractedData,  \* the value the promise was resolved with
    receiptRuns,    \* the number of times the program was started
    \* ---- history of the receipt enrichment, read by the properties only
    failure,        \* the kind of the failure that happened in this run, "none" if none
    modelCalls,     \* generateText calls made for the current receipt
    callsAfterTool, \* those made after a tool had been called
    returned,       \* for each field, the values getReceiptData returned for its key
    lateWork,       \* the fields extracted again after getReceiptData had returned for them
    \* ---- generateStatementOfActivity (SpecStatement)
    timeZone,       \* the time zone the process runs in
    storeRecords,   \* the records parse returns for processed.csv
    sPc,            \* where generateStatementOfActivity is
    sError,         \* the fault it rejected with, "none" if none
    recordIndex,    \* index of the record of the current forEach turn
    transactionsByAccount,  \* accountId -> array of { date, amount, description, monthKey }
    monthlyTotals,  \* <<monthKey, accountId>> -> number
    sortedMonths,   \* the Set of month keys, in insertion order
    sortedMonthsArray,      \* Array.from(sortedMonths).sort()
    wsData,         \* the rows pushed, each with its entry of outlineLevels
    incomeTotals,   \* incomeSection.totals
    expenseTotals,  \* expenseSection.totals
    workbook,       \* statement-of-activity.xlsx
    identified,     \* the object identifyFields returned to generateStatementOfActivity
    firstWorkbook,  \* statement-of-activity.xlsx as an earlier call over the same store left it
    \* ---- RateLimiter (SpecLimiter)
    now,            \* Date.now()
    tokens,         \* this.tokens
    lastRefill,     \* this.lastRefill
    lPc,            \* where the one caller of getToken is
    wakeAt,         \* when the timer of setTimeout is due
    returnTimes,    \* the times at which calls of getToken returned
    waited,         \* how many calls had to sleep
    \* ---- hcb_import (SpecImport)
    hcbToken,       \* process.env.HCB_TOKEN, "" when it is not set
    counterspellsData,  \* the ids of the organizations of counterspells.json
    iPc,            \* where the script is
    exitCode,       \* the exit status of the script
    orgIndex,       \* index of the organization of the current loop turn
    organizations,  \* the array processCounterspells builds
    outputFile,     \* all_transactions.json
    fetched,        \* transactions of fetchAllTransactions
    hasMore,        \* hasMore of fetchAllTransactions
    after,          \* after of fetchAllTransactions
    pageLog,        \* the page requests of the current call with their responses
    requestCount,   \* how many requests were sent to the ledger API
    delivered,      \* per organization, the transactions the API delivered in its pages
    failedOrgs,     \* the organizations during whose processing a request failed
    restarted,      \* the script was started again after it had crashed
    savedEarlier,   \* the organizations all_transactions.json held when the script was restarted
    \* ---- the fields of processed.csv with receipts (SpecFields)
    receiptInput,   \* per transaction of the input, the URL in each receipt field
    fPc,            \* where processTransactions is
    rowIndex,       \* index of the transaction of the current loop turn
    csvHeader,      \* the header fields of processed.csv, <<>> while it does not exist
    csvRows,        \* the fields of the lines appended to processed.csv
    \* ---- hcb_json_to_csv (SpecExport)
    jsonData,       \* the transactions of the organization in all_transactions.json
    xPc,            \* where convertJsonToCsv is
    allTransactions,    \* allTransactions
    xIndex,         \* index of the transaction of the current loop turn
    pathSet,        \* paths
    orderedPaths,   \* orderedPaths
    exportRows,     \* csvRows
    exportFile      \* hcb_transactions.csv, as its lines

resolverVars == <<rAccountId, rPc, rTop, rCurrent, rParts, rResult>>

keyVars == <<kT1, kT2, kPc, kKey1, kKey2>>

receiptVars == <<receiptUrls, receiptPc, urlField, extractedContents, cacheFile, attempts,
                 toolCalled, promise, extractedData, receiptRuns, failure, modelCalls,
                 callsAfterTool, returned, lateWork>>

storeVars == <<storeExists, header, rows>>

localVars == <<transactions, processedTransactions, i, transactionKey, object, question,
               selectedAnswer, categorization, accountName, accountId>>

historyVars == <<presented, calls, appendedFor, completed, doneStore>>

pipelineVars == <<variant, inputFile, storeVars, pc, run, error, localVars, historyVars>>

statementVars == <<timeZone, storeRecords, sPc, sError, recordIndex, transactionsByAccount, monthlyTotals,
                   sortedMonths, sortedMonthsArray, wsData, incomeTotals, expenseTotals,
                   workbook, identified, firstWorkbook>>

limiterVars == <<now, tokens, lastRefill, lPc, wakeAt, returnTimes, waited>>

importVars == <<hcbToken, counterspellsData, iPc, exitCode, orgIndex, organizations, outputFile,
                fetched, hasMore, after, pageLog, requestCount, delivered, failedOrgs,
                restarted, savedEarlier>>

fieldsVars == <<receiptInput, fPc, rowIndex, csvHeader, csvRows>>

exportVars == <<jsonData, xPc, allTransactions, xIndex, pathSet, orderedPaths, exportRows,
                exportFile>>

vars == <<pipelineVars, keyVars, resolverVars, receiptVars, statementVars,
          limiterVars, importVars, fieldsVars, exportVars>>

-----------------------------------------------------------------------------
(* Strings                                                                 *)

QUOTE == "\""

\* every string over an alphabet of at most n characters
Strings(alphabet, n) == UNION {[1..k -> alphabet] : k \in 0..n}

\* the characters String.prototype.trim removes
IsWhitespace(c) == c \in {" ", "\n"}

RECURSIVE trimStart(_), trimEnd(_)
trimStart(str) ==
    IF str # <<>> /\ IsWhitespace(Head(str)) THEN trimStart(Tail(str)) ELSE str

trimEnd(str) ==
    IF str # <<>> /\ IsWhitespace(str[Len(str)])
    THEN trimEnd(SubSeq(str, 1, Len(str) - 1))
    ELSE str

\* String.prototype.trim
trim(str) == trimEnd(trimStart(str))

\* String.prototype.toLowerCase: "A" is the upper-case letter of the alphabet
toLowerCase(str) == [k \in 1..Len(str) |-> IF str[k] = "A" THEN "a" ELSE str[k]]

\* String.prototype.includes for a single character
includes(str, c) == \E k \in 1..Len(str) : str[k] = c

-----------------------------------------------------------------------------
(* JavaScript values of a transaction object                               *)

\* a Date object, as the day and the time of day of its UTC instant
Date(day, time) == [type |-> "Date", day |-> day, time |-> time]
NullDate == [type |-> "null", day |-> "", time |-> ""]

\* a number (an integer), a string, or null in the amount property
Number(n) == [type |-> "number", num |-> n, str |-> <<>>]
StringAmount(str) == [type |-> "string", num |-> 0, str |-> str]
NullAmount == [type |-> "null", num |-> 0, str |-> <<>>]

\* Date.prototype.toISOString
toISOString(date) == <<date.day, "T", date.time>>

\* str.split('T')[0]
RECURSIVE splitT0(_)
splitT0(str) ==
    IF str = <<>> \/ Head(str) = "T" THEN <<>> ELSE <<Head(str)>> \o splitT0(Tail(str))

\* Number.prototype.toFixed(2) of an integer
toFixed2(n) == <<ToString(n), ".", "00">>

\* x || y on strings: the empty string and undefined are falsy
Or(x, y) == IF x # <<>> THEN x ELSE y

-----------------------------------------------------------------------------
(* Chart of accounts                                                       *)

Node(id, name, subAccounts) == [id |-> id, name |-> name, subAccounts |-> subAccounts]

\* Every account object of CHART_OF_ACCOUNTS; subAccounts lists the ids of the
\* values of its subAccounts object in insertion order (<<>>: no subAccounts).
ACCOUNTS ==
    { Node("4000", "Income", <<"4100", "4200", "4300">>),
      Node("4100", "Major Gifts $5k+", <<>>),
      Node("4200", "Grassroots Donations", <<>>),
      Node("4300", "Earned Revenue", <<>>),
      Node("5000", "Expenses",
           <<"5100", "5200", "5300", "5400", "5500", "5600", "5700", "5800", "5900", "5950">>),
      Node("5100", "Personnel Expenses", <<"5110", "5120", "5130">>),
      Node("5110", "Salaries and Wages", <<>>),
      Node("5120", "Employee Benefits and Payroll Taxes", <<>>),
      Node("5130", "Contractors", <<>>),
      Node("5200", "Outside Professional Services and Fees", <<"5210">>),
      Node("5210", "Legal and Accounting Services", <<>>),
      Node("5300", "Facilities Expenses",
           <<"5310", "5320", "5330", "5340", "5350", "5360", "5370">>),
      Node("5310", "Rent and Lease Expense", <<>>),
      Node("5320", "Utilities", <<>>),
      Node("5330", "Maintenance and Repairs", <<>>),
      Node("5340", "Depreciation Expense", <<>>),
      Node("5350", "Office Supplies", <<>>),
      Node("5360", "Internet", <<>>),
      Node("5370", "Office Expenses", <<>>),
      Node("5400", "Technology", <<"5410", "5420", "5430">>),
      Node("5410", "Staff Computers", <<>>),
      Node("5420", "Software Subscriptions & Licenses", <<>>),
      Node("5430", "Servers & Hosting", <<>>),
      Node("5500", "Shipping & Postage", <<>>),
      Node("5600", "Insurance", <<"5610", "5620">>),
      Node("5610", "General Liability Insurance", <<>>),
      Node("5620", "Other Insurance", <<>>),
      Node("5700", "Program Expenses", <<"5710", "5720">>),
      Node("5710", "Travel & Transportation", <<"5711">>),
      Node("5711", "Travel Expense Details", <<>>),
      Node("5720", "Resource Distribution", <<"5721", "5722">>),
      Node("5721", "Direct Resources / Prizes / Grants", <<>>),
      Node("5722", "Sub-Grants To Other Orgs", <<>>),
      Node("5800", "Support Expenses", <<"5810", "5820", "5830", "5840">>),
      Node("5810", "Marketing and Communications", <<>>),
      Node("5820", "Training & Professional Development", <<>>),
      Node("5830", "Meeting & Conference Costs", <<>>),
      Node("5840", "Meals & Entertainment", <<>>),
      Node("5900", "Fundraising Expenses", <<"5910", "5920", "5930">>),
      Node("5910", "Travel & Transportation", <<>>),
      Node("5920", "Events", <<>>),
      Node("5930", "Other", <<>>),
      Node("5950", "Miscellaneous or Other Operating Expenses", <<>>) }

\* Object.values(CHART_OF_ACCOUNTS): the accounts under the keys income, expenses.
CHART_OF_ACCOUNTS == <<"4000", "5000">>

AccountIds == {n.id : n \in ACCOUNTS}

\* The account object with a given id.
Account(id) == CHOOSE n \in ACCOUNTS : n.id = id

\* JavaScript null where an account object is expected.
NullNode == Node("null", "null", <<>>)

\* JavaScript undefined where a string is expected.
Undefined == "undefined"

-----------------------------------------------------------------------------
(* getFullAccountName                                                      *)

RECURSIVE findAccount(_, _), findInSubAccounts(_, _, _)

\* findAccount(obj): pre-order search below obj for the accountId (wantedId) of the
\* enclosing call; the first match is returned, null when there is none.
findAccount(obj, wantedId) ==
    IF obj.id = wantedId THEN obj
    ELSE IF obj.subAccounts # <<>> THEN findInSubAccounts(obj.subAccounts, 1, wantedId)
    ELSE NullNode

\* the for loop over Object.values(obj.subAccounts), from its k-th value
findInSubAccounts(subAccounts, k, wantedId) ==
    IF k > Len(subAccounts) THEN NullNode
    ELSE LET found == findAccount(Account(subAccounts[k]), wantedId)
         IN  IF found # NullNode THEN found
             ELSE findInSubAccounts(subAccounts, k + 1, wantedId)

\* current.parentId: no account object of the chart has a parentId property.
parentIdOf(current) ==
    IF "parentId" \in DOMAIN current THEN current.parentId ELSE Undefined

\* The object CHART_OF_ACCOUNTS itself, as findAccount sees it: it has the keys
\* income and expenses, so neither an id nor subAccounts.
ChartObject == Node(Undefined, Undefined, <<>>)

\* One turn of `while (current)`: the new <<current, parts>>.
walkStep(current, parts, wantedId) ==
    LET parentId == parentIdOf(current)
    IN  << IF parentId # Undefined THEN findAccount(ChartObject, wantedId) ELSE NullNode,
           <<current.name>> \o parts >>

RECURSIVE walk(_, _, _)
walk(current, parts, wantedId) ==
    IF current = NullNode THEN parts
    ELSE LET s == walkStep(current, parts, wantedId) IN walk(s[1], s[2], wantedId)

\* the for loop over the top-level accounts, from the k-th: the node found
RECURSIVE searchTop(_, _)
searchTop(k, wantedId) ==
    IF k > Len(CHART_OF_ACCOUNTS) THEN NullNode
    ELSE LET current == findAccount(Account(CHART_OF_ACCOUNTS[k]), wantedId)
         IN  IF current # NullNode THEN current ELSE searchTop(k + 1, wantedId)

\* parts.join(' > ')
RECURSIVE join(_)
join(parts) ==
    IF parts = <<>> THEN <<>>
    ELSE IF Len(parts) = 1 THEN <<parts[1]>>
    ELSE <<parts[1], " > ">> \o join(Tail(parts))

getFullAccountName(wantedId) == join(walk(searchTop(1, wantedId), <<>>, wantedId))

-----------------------------------------------------------------------------
(* createTransactionKey                                                    *)

\* a createTransactionKey that compares descriptions case-sensitively
createTransactionKey_CaseSensitive(transaction) ==
    LET dateStr == IF transaction.date.type = "Date"
                   THEN splitT0(toISOString(transaction.date))
                   ELSE <<>>
        amountStr == IF transaction.amount.type = "number"
                     THEN toFixed2(transaction.amount.num)
                     ELSE transaction.amount.str
        descStr == Or(Or(transaction.description, transaction.memo), <<>>)
    IN  trim(dateStr \o <<"|">> \o amountStr \o <<"|">> \o descStr)

\* src/index.js: the composite key of date, amount and description
createTransactionKey(transaction) ==
    LET dateStr == IF transaction.date.type = "Date"
                   THEN splitT0(toISOString(transaction.date))
                   ELSE <<>>
        amountStr == IF transaction.amount.type = "number"
                     THEN toFixed2(transaction.amount.num)
                     ELSE transaction.amount.str
        descStr == Or(Or(transaction.description, transaction.memo), <<>>)
    IN  trim(toLowerCase(dateStr \o <<"|">> \o amountStr \o <<"|">> \o descStr))

\* the later variant: the id field is the key
createTransactionKeyById(transaction) == Or(transaction.id, <<>>)

-----------------------------------------------------------------------------
(* CSV fields                                                              *)

\* stringField.replace(/"/g, '""')
RECURSIVE doubleQuotes(_)
doubleQuotes(str) ==
    IF str = <<>> THEN <<>>
    ELSE (IF Head(str) = QUOTE THEN <<QUOTE, QUOTE>> ELSE <<Head(str)>>)
         \o doubleQuotes(Tail(str))

\* escapeCsvField of a string (null and undefined are the empty string here)
escapeCsvField(field) ==
    IF includes(field, ",") \/ includes(field, QUOTE) \/ includes(field, "\n")
    THEN <<QUOTE>> \o doubleQuotes(field) \o <<QUOTE>>
    ELSE field

\* the content of a quoted field, read from just after its opening quote up to
\* the closing quote; a doubled quote (escape: '"') is one quote of the content
RECURSIVE readQuoted(_)
readQuoted(text) ==
    IF text = <<>> THEN <<>>
    ELSE IF Head(text) = QUOTE
         THEN IF Len(text) >= 2 /\ text[2] = QUOTE
              THEN <<QUOTE>> \o readQuoted(Tail(Tail(text)))
              ELSE <<>>
         ELSE <<Head(text)>> \o readQuoted(Tail(text))

\* One field as parse(..., CSV_PARSE_OPTIONS) returns it. trim: true drops the
\* whitespace around the delimiters: all of the leading and trailing whitespace
\* of an unquoted field, and none of what stands between the quotes of a quoted one.
parseCsvField(text) ==
    LET t == trimStart(text)
    IN  IF t # <<>> /\ Head(t) = QUOTE THEN readQuoted(Tail(t)) ELSE trimEnd(t)

\* record[name] of the k-th record parse returns for processed.csv (columns: true);
\* undefined, here the empty string, when the line has no such column
storeField(hdr, line, name) ==
    IF \E k \in 1..Len(hdr) : hdr[k] = name /\ k <= Len(line)
    THEN parseCsvField(line[CHOOSE k \in 1..Len(hdr) : hdr[k] = name /\ k <= Len(line)])
    ELSE <<>>

-----------------------------------------------------------------------------
(* loadTransactions                                                        *)

\* the numbers the amounts of the input denote
Numbers == {1000, -250}

NaN == [type |-> "number", num |-> 0, str |-> <<"NaN">>]

\* str.replace(/[$,]/g, '')
RECURSIVE removeCurrencyMarks(_)
removeCurrencyMarks(str) ==
    IF str = <<>> THEN <<>>
    ELSE (IF Head(str) \in {"$", ","} THEN <<>> ELSE <<Head(str)>>)
         \o removeCurrencyMarks(Tail(str))

\* parseFloat of a string holding one numeral
parseFloat(str) ==
    IF \E n \in Numbers : str = <<ToString(n)>>
    THEN Number(CHOOSE n \in Numbers : str = <<ToString(n)>>)
    ELSE NaN

\* String(n) of a number
numberToString(amount) ==
    IF amount = NaN THEN <<"NaN">> ELSE <<ToString(amount.num)>>

\* new Date(str) of a date-only or a full ISO string
newDate(str) ==
    IF Len(str) = 3 /\ str[2] = "T" THEN Date(str[1], str[3])
    ELSE Date(str[1], "00:00:00.000Z")

\* the later variant: amountNum = parseFloat(...) / 100 formatted as currency,
\* `-$${Math.abs(amountNum).toFixed(2)}` or `$${amountNum.toFixed(2)}`
formatCurrency(amount) ==
    LET cents == IF amount.num < 0 THEN 0 - amount.num ELSE amount.num
        frac == cents % 100
        fixed == <<ToString(cents \div 100), ".", ToString(frac \div 10), ToString(frac % 10)>>
    IN  IF amount.num < 0 THEN <<"-", "$">> \o fixed ELSE <<"$">> \o fixed

\* One element of records.map(...): identifyFields is taken to name the columns
\* "date" and "amount"; the remaining fields follow in the order of the input.
loadTransaction(v, record) ==
    LET parsed == parseFloat(removeCurrencyMarks(record.amount))
    IN  [ date |-> IF record.date # <<>> THEN newDate(record.date) ELSE NullDate,
          amount |-> IF record.amount = <<>> THEN NullAmount
                     ELSE IF v = "composite" THEN parsed
                     ELSE IF parsed = NaN THEN NullAmount
                     ELSE StringAmount(formatCurrency(parsed)),
          description |-> record.description,
          memo |-> record.memo,
          id |-> record.id ]

loadTransactions(v, records) == [k \in 1..Len(records) |-> loadTransaction(v, records[k])]

-----------------------------------------------------------------------------
(* The key of a transaction and of a line of the store                     *)

\* createTransactionKey(transaction), in the variant that runs
keyOfTransaction(v, transaction) ==
    IF v = "composite" THEN createTransactionKey(transaction)
    ELSE createTransactionKeyById(transaction)

\* the key processTransactions derives from a record of processed.csv
keyOfStoreRecord(v, hdr, line) ==
    LET date == storeField(hdr, line, "date")
        amount == storeField(hdr, line, "amount")
    IN  IF v = "composite"
        THEN createTransactionKey(
                 [ date |-> IF date # <<>> THEN newDate(date) ELSE NullDate,
                   amount |-> IF amount # <<>> THEN parseFloat(amount) ELSE NullAmount,
                   description |-> storeField(hdr, line, "description"),
                   memo |-> storeField(hdr, line, "memo") ])
        ELSE createTransactionKeyById([id |-> storeField(hdr, line, "id")])

\* the Set built from processed.csv when a run starts
loadProcessedKeys(v, exists, hdr, lines) ==
    IF exists THEN {keyOfStoreRecord(v, hdr, lines[k]) : k \in 1..Len(lines)} ELSE {}

-----------------------------------------------------------------------------
(* The line and the header written for a transaction                       *)

\* the property keys of a transaction object after its first four, with the
\* accountName property the loop adds last
extraColumns == <<"description", "memo", "id", "accountName">>

headerFields == <<"date", "amount", "category", "accountId">> \o extraColumns

\* the value of transaction.amount as escapeCsvField's String(field) gives it
amountToString(amount) ==
    IF amount.type = "number" THEN numberToString(amount) ELSE amount.str

\* the classifier's name stored instead of the resolved one
classifierAccountName(resolvedName, classifierName) == classifierName

\* the accountName stored on the transaction: the resolved name, not the
\* classifier's
persistedAccountName(resolvedName, classifierName) == resolvedName

\* the fields of csvLine for a transaction and its final account
csvLine(transaction, finalAccountId, classifierName) ==
    << escapeCsvField(IF transaction.date.type = "Date"
                      THEN toISOString(transaction.date) ELSE <<>>),
       escapeCsvField(amountToString(transaction.amount)),
       escapeCsvField(<<>>),
       escapeCsvField(IF finalAccountId # "" THEN <<finalAccountId>> ELSE <<>>),
       escapeCsvField(transaction.description),
       escapeCsvField(transaction.memo),
       escapeCsvField(transaction.id),
       escapeCsvField(persistedAccountName(getFullAccountName(finalAccountId),
                                           <<classifierName>>)) >>

-----------------------------------------------------------------------------
(* The collaborators of processTransactions                                *)

MaxTransactions == 2

MaxRuns == 2

MaxQuestions == 2

\* a record of the input file, as csv-parse returns it
InputRecord(description, memo, id) ==
    [ date |-> <<"2024-03-01">>, amount |-> <<"1000">>,
      description |-> description, memo |-> memo, id |-> id ]

\* The records an input file is made of. A field with whitespace at its ends
\* stood between quotes in the file (trim: true leaves such a field as it is).
InputRecords(v) ==
    IF v = "composite"
    THEN { InputRecord(<<"a">>, <<>>, <<"t1">>),
           InputRecord(<<" ", "a">>, <<>>, <<"t1">>),
           InputRecord(<<>>, <<"m", ",", QUOTE>>, <<"t1">>) }
    ELSE { InputRecord(<<"a">>, <<>>, <<"t1">>),
           InputRecord(<<"a">>, <<>>, <<" ", "t1">>),
           InputRecord(<<"a">>, <<>>, <<>>) }

InputFiles(v) == UNION {[1..n -> InputRecords(v)] : n \in 0..MaxTransactions}

\* the account names and ids the classifier answers with: the name of the
\* chart for the id, another name for it, and an id the chart does not have
Classifications ==
    { [accountName |-> "Salaries and Wages", accountId |-> "5110"],
      [accountName |-> "Payroll", accountId |-> "5110"],
      [accountName |-> "Payroll", accountId |-> "9999"] }

Question(k) ==
    [ thoughtfulQuestion |-> <<"q", ToString(k)>>,
      multipleChoiceOptions |-> << <<"yes">>, <<"no">> >> ]

\* the objects the first generateObject call can return
FirstResponses ==
    { [accountName |-> c.accountName, accountId |-> c.accountId, questions |-> qs] :
        c \in Classifications,
        qs \in {[k \in 1..n |-> Question(k)] : n \in 0..MaxQuestions} }

\* the objects the second generateObject call can return
SecondResponses == Classifications

\* what the human types at the prompt
Answers == {<<"1">>, <<"o", " ">>}

Digits == <<"1", "2", "3", "4", "5", "6", "7", "8", "9">>

\* parseInt(answer) of an answer of at most one digit; 0 stands for NaN
parseInt(answer) ==
    LET t == trimStart(answer)
    IN  IF t # <<>> /\ \E d \in 1..9 : Digits[d] = Head(t)
        THEN CHOOSE d \in 1..9 : Digits[d] = Head(t)
        ELSE 0

\* the value the readline callback resolves the promise with
resolveAnswer(q, answer) ==
    LET num == parseInt(answer)
    IN  IF num >= 1 /\ num <= Len(q.multipleChoiceOptions)
        THEN q.multipleChoiceOptions[num]
        ELSE trim(answer)

NoObject == [accountName |-> "", accountId |-> "", questions |-> <<>>]
NoCategorization == [accountName |-> "", accountId |-> ""]
NoQuestion == [thoughtfulQuestion |-> <<>>, multipleChoiceOptions |-> <<>>]
NoStore == [exists |-> FALSE, header |-> <<>>, rows |-> <<>>]

-----------------------------------------------------------------------------
(* processTransactions                                                     *)

\* the variables of one loop iteration, before anything is assigned
IterationReset ==
    /\ transactionKey' = <<>>
    /\ object' = NoObject
    /\ question' = NoQuestion
    /\ selectedAnswer' = <<>>
    /\ categorization' = NoCategorization
    /\ accountName' = ""
    /\ accountId' = ""

PipelineInit ==
    /\ variant \in {"composite", "id"}
    /\ inputFile \in InputFiles(variant)
    /\ storeExists = FALSE
    /\ header = <<>>
    /\ rows = <<>>
    /\ pc = "idle"
    /\ run = 0
    /\ error = "none"
    /\ transactions = <<>>
    /\ processedTransactions = {}
    /\ i = 0
    /\ transactionKey = <<>>
    /\ object = NoObject
    /\ question = NoQuestion
    /\ selectedAnswer = <<>>
    /\ categorization = NoCategorization
    /\ accountName = ""
    /\ accountId = ""
    /\ presented = <<>>
    /\ calls = 0
    /\ appendedFor = {}
    /\ completed = FALSE
    /\ doneStore = NoStore

PipelineIdle ==
    /\ variant = "composite"
    /\ inputFile = <<>>
    /\ storeExists = FALSE
    /\ header = <<>>
    /\ rows = <<>>
    /\ pc = "off"
    /\ run = 0
    /\ error = "none"
    /\ transactions = <<>>
    /\ processedTransactions = {}
    /\ i = 0
    /\ transactionKey = <<>>
    /\ object = NoObject
    /\ question = NoQuestion
    /\ selectedAnswer = <<>>
    /\ categorization = NoCategorization
    /\ accountName = ""
    /\ accountId = ""
    /\ presented = <<>>
    /\ calls = 0
    /\ appendedFor = {}
    /\ completed = FALSE
    /\ doneStore = NoStore

Running == {"loop", "classify", "ask", "reclassify", "persist", "appended"}

\* the last question taken instead of the first
lastQuestion(questions) == questions[Len(questions)]

\* const question = questions[0]
firstQuestion(questions) == questions[1]

\* the tentative id of the first call kept
keepTentativeAccountId(tentativeId, secondId) == tentativeId

\* accountId = categorization.accountId: the second call's id replaces the
\* tentative id of the first call
overrideAccountId(tentativeId, secondId) == secondId

\* the check for an input without records left out
noRecords_Ignored(records) == FALSE

\* if (records.length === 0) throw new Error('No transactions found in CSV file')
noRecords(records) == Len(records) = 0

\* A run starts: loadTransactions, which throws on an input without records,
\* then the Set of keys is read from processed.csv.
StartRun ==
    /\ pc \in {"idle", "done", "failed"}
    /\ run < MaxRuns
    /\ run' = run + 1
    /\ IF noRecords(inputFile)
       THEN /\ pc' = "failed"
            /\ error' = "InputFault"
            /\ transactions' = <<>>
            /\ processedTransactions' = {}
            /\ i' = 0
       ELSE /\ pc' = "loop"
            /\ error' = "none"
            /\ transactions' = loadTransactions(variant, inputFile)
            /\ processedTransactions' = loadProcessedKeys(variant, storeExists, header, rows)
            /\ i' = 1
    /\ IterationReset
    /\ presented' = <<>>
    /\ calls' = 0
    /\ appendedFor' = {}
    /\ UNCHANGED <<variant, inputFile, storeVars, completed, doneStore>>
    /\ UNCHANGED <<keyVars, resolverVars, receiptVars, statementVars,
                   limiterVars, importVars, fieldsVars, exportVars>>

\* the for loop is over: return transactions
Finish ==
    /\ pc = "loop"
    /\ i > Len(transactions)
    /\ pc' = "done"
    /\ completed' = TRUE
    /\ doneStore' = IF completed THEN doneStore
                    ELSE [exists |-> storeExists, header |-> header, rows |-> rows]
    /\ UNCHANGED <<variant, inputFile, storeVars, run, error, localVars>>
    /\ UNCHANGED <<presented, calls, appendedFor>>
    /\ UNCHANGED <<keyVars, resolverVars, receiptVars, statementVars,
                   limiterVars, importVars, fieldsVars, exportVars>>

\* if (processedTransactions.has(transactionKey)) continue;
SkipProcessed ==
    /\ pc = "loop"
    /\ i <= Len(transactions)
    /\ keyOfTransaction(variant, transactions[i]) \in processedTransactions
    /\ i' = i + 1
    /\ UNCHANGED <<variant, inputFile, storeVars, pc, run, error, historyVars>>
    /\ UNCHANGED <<transactions, processedTransactions, transactionKey, object, question,
                   selectedAnswer, categorization, accountName, accountId>>
    /\ UNCHANGED <<keyVars, resolverVars, receiptVars, statementVars,
                   limiterVars, importVars, fieldsVars, exportVars>>

\* the key is not in the Set: the transaction goes to the classifier
BeginTransaction ==
    /\ pc = "loop"
    /\ i <= Len(transactions)
    /\ keyOfTransaction(variant, transactions[i]) \notin processedTransactions
    /\ transactionKey' = keyOfTransaction(variant, transactions[i])
    /\ pc' = "classify"
    /\ presented' = <<>>
    /\ calls' = 0
    /\ UNCHANGED <<variant, inputFile, storeVars, run, error>>
    /\ UNCHANGED <<transactions, processedTransactions, i, object, question,
                   selectedAnswer, categorization, accountName, accountId>>
    /\ UNCHANGED <<appendedFor, completed, doneStore>>
    /\ UNCHANGED <<keyVars, resolverVars, receiptVars, statementVars,
                   limiterVars, importVars, fieldsVars, exportVars>>

\* The first generateObject call returns. With questions, the first one and
\* its options are printed and readline waits for the answer.
ClassifyFirst ==
    /\ pc = "classify"
    /\ \E response \in FirstResponses :
        /\ object' = response
        /\ accountName' = response.accountName
        /\ accountId' = response.accountId
        /\ IF Len(response.questions) > 0
           THEN /\ question' = firstQuestion(response.questions)
                /\ presented' = Append(presented, firstQuestion(response.questions))
                /\ pc' = "ask"
           ELSE /\ pc' = "persist"
                /\ UNCHANGED <<question, presented>>
    /\ calls' = calls + 1
    /\ UNCHANGED <<variant, inputFile, storeVars, run, error>>
    /\ UNCHANGED <<transactions, processedTransactions, i, transactionKey, selectedAnswer,
                   categorization>>
    /\ UNCHANGED <<appendedFor, completed, doneStore>>
    /\ UNCHANGED <<keyVars, resolverVars, receiptVars, statementVars,
                   limiterVars, importVars, fieldsVars, exportVars>>

\* the first generateObject call throws: processTransactions rejects
ClassifyFirstFails ==
    /\ pc = "classify"
    /\ calls' = calls + 1
    /\ pc' = "failed"
    /\ error' = "OracleFault"
    /\ UNCHANGED <<variant, inputFile, storeVars, run, localVars>>
    /\ UNCHANGED <<presented, appendedFor, completed, doneStore>>
    /\ UNCHANGED <<keyVars, resolverVars, receiptVars, statementVars,
                   limiterVars, importVars, fieldsVars, exportVars>>

\* the answer taken and the line written without a second classifier call
AnswerQuestion_SkipsSecondCall ==
    /\ pc = "ask"
    /\ \E answer \in Answers : selectedAnswer' = resolveAnswer(question, answer)
    /\ pc' = "persist"
    /\ UNCHANGED <<variant, inputFile, storeVars, run, error, historyVars>>
    /\ UNCHANGED <<transactions, processedTransactions, i, transactionKey, object, question,
                   categorization, accountName, accountId>>
    /\ UNCHANGED <<keyVars, resolverVars, receiptVars, statementVars,
                   limiterVars, importVars, fieldsVars, exportVars>>

\* the human answers the prompt
AnswerQuestion ==
    /\ pc = "ask"
    /\ \E answer \in Answers : selectedAnswer' = resolveAnswer(question, answer)
    /\ pc' = "reclassify"
    /\ UNCHANGED <<variant, inputFile, storeVars, run, error, historyVars>>
    /\ UNCHANGED <<transactions, processedTransactions, i, transactionKey, object, question,
                   categorization, accountName, accountId>>
    /\ UNCHANGED <<keyVars, resolverVars, receiptVars, statementVars,
                   limiterVars, importVars, fieldsVars, exportVars>>

\* the second generateObject call returns
ClassifySecond ==
    /\ pc = "reclassify"
    /\ \E response \in SecondResponses :
        /\ categorization' = response
        /\ accountName' = response.accountName
        /\ accountId' = overrideAccountId(accountId, response.accountId)
    /\ calls' = calls + 1
    /\ pc' = "persist"
    /\ UNCHANGED <<variant, inputFile, storeVars, run, error>>
    /\ UNCHANGED <<transactions, processedTransactions, i, transactionKey, object, question,
                   selectedAnswer>>
    /\ UNCHANGED <<presented, appendedFor, completed, doneStore>>
    /\ UNCHANGED <<keyVars, resolverVars, receiptVars, statementVars,
                   limiterVars, importVars, fieldsVars, exportVars>>

\* a failure of the second call swallowed: the tentative id is persisted
ClassifySecondFails_FallsBack ==
    /\ pc = "reclassify"
    /\ calls' = calls + 1
    /\ pc' = "persist"
    /\ error' = "OracleFault"
    /\ UNCHANGED <<variant, inputFile, storeVars, run, localVars>>
    /\ UNCHANGED <<presented, appendedFor, completed, doneStore>>
    /\ UNCHANGED <<keyVars, resolverVars, receiptVars, statementVars,
                   limiterVars, importVars, fieldsVars, exportVars>>

\* the second generateObject call throws
ClassifySecondFails ==
    /\ pc = "reclassify"
    /\ calls' = calls + 1
    /\ pc' = "failed"
    /\ error' = "OracleFault"
    /\ UNCHANGED <<variant, inputFile, storeVars, run, localVars>>
    /\ UNCHANGED <<presented, appendedFor, completed, doneStore>>
    /\ UNCHANGED <<keyVars, resolverVars, receiptVars, statementVars,
                   limiterVars, importVars, fieldsVars, exportVars>>

\* if (!existsSync('processed.csv')) writeFileSync('processed.csv', header)
WriteHeader ==
    /\ pc = "persist"
    /\ ~storeExists
    /\ storeExists' = TRUE
    /\ header' = headerFields
    /\ UNCHANGED <<variant, inputFile, rows, pc, run, error, localVars, historyVars>>
    /\ UNCHANGED <<keyVars, resolverVars, receiptVars, statementVars,
                   limiterVars, importVars, fieldsVars, exportVars>>

\* the line written over the lines the file holds, not after them
AppendLine_Overwrites ==
    /\ pc = "persist"
    /\ storeExists
    /\ rows' = <<csvLine(transactions[i], accountId, accountName)>>
    /\ pc' = "appended"
    /\ appendedFor' = appendedFor \cup {i}
    /\ UNCHANGED <<variant, inputFile, storeExists, header, run, error, localVars>>
    /\ UNCHANGED <<presented, calls, completed, doneStore>>
    /\ UNCHANGED <<keyVars, resolverVars, receiptVars, statementVars,
                   limiterVars, importVars, fieldsVars, exportVars>>

\* writeFileSync('processed.csv', csvLine, { flag: 'a' })
AppendLine ==
    /\ pc = "persist"
    /\ storeExists
    /\ rows' = Append(rows, csvLine(transactions[i], accountId, accountName))
    /\ pc' = "appended"
    /\ appendedFor' = appendedFor \cup {i}
    /\ UNCHANGED <<variant, inputFile, storeExists, header, run, error, localVars>>
    /\ UNCHANGED <<presented, calls, completed, doneStore>>
    /\ UNCHANGED <<keyVars, resolverVars, receiptVars, statementVars,
                   limiterVars, importVars, fieldsVars, exportVars>>

\* the key added to the Set although the write has thrown
WriteFails_KeyAdded ==
    /\ pc = "persist"
    /\ pc' = "failed"
    /\ error' = "IOFault"
    /\ processedTransactions' = processedTransactions \cup {transactionKey}
    /\ UNCHANGED <<variant, inputFile, storeVars, run, historyVars>>
    /\ UNCHANGED <<transactions, i, transactionKey, object, question,
                   selectedAnswer, categorization, accountName, accountId>>
    /\ UNCHANGED <<keyVars, resolverVars, receiptVars, statementVars,
                   limiterVars, importVars, fieldsVars, exportVars>>

\* writeFileSync throws
WriteFails ==
    /\ pc = "persist"
    /\ pc' = "failed"
    /\ error' = "IOFault"
    /\ UNCHANGED <<variant, inputFile, storeVars, run, localVars, historyVars>>
    /\ UNCHANGED <<keyVars, resolverVars, receiptVars, statementVars,
                   limiterVars, importVars, fieldsVars, exportVars>>

\* processedTransactions.add(transactionKey); the next iteration begins
MarkProcessed ==
    /\ pc = "appended"
    /\ processedTransactions' = processedTransactions \cup {transactionKey}
    /\ i' = i + 1
    /\ pc' = "loop"
    /\ IterationReset
    /\ UNCHANGED <<variant, inputFile, storeVars, run, error, transactions, historyVars>>
    /\ UNCHANGED <<keyVars, resolverVars, receiptVars, statementVars,
                   limiterVars, importVars, fieldsVars, exportVars>>

\* the process is killed while it runs; what it held in memory is gone
Kill ==
    /\ pc \in Running
    /\ pc' = "idle"
    /\ transactions' = <<>>
    /\ processedTransactions' = {}
    /\ i' = 0
    /\ IterationReset
    /\ presented' = <<>>
    /\ calls' = 0
    /\ appendedFor' = {}
    /\ UNCHANGED <<variant, inputFile, storeVars, run, error, completed, doneStore>>
    /\ UNCHANGED <<keyVars, resolverVars, receiptVars, statementVars,
                   limiterVars, importVars, fieldsVars, exportVars>>

Next ==
    \/ StartRun
    \/ Finish
    \/ SkipProcessed
    \/ BeginTransaction
    \/ ClassifyFirst
    \/ ClassifyFirstFails
    \/ AnswerQuestion
    \/ ClassifySecond
    \/ ClassifySecondFails
    \/ WriteHeader
    \/ AppendLine
    \/ WriteFails
    \/ MarkProcessed
    \/ Kill

-----------------------------------------------------------------------------
(* createTransactionKey on its own                                         *)

MaxDescLen == 2

KeyAlphabet == {"a", "A", " "}

KeyTransactions ==
    [ date : {Date("2024-03-01", "00:00:00.000Z"), NullDate},
      amount : {Number(1000), NullAmount},
      description : Strings(KeyAlphabet, MaxDescLen),
      memo : {<<>>, <<"m">>} ]

KeyInit ==
    /\ kT1 \in KeyTransactions
    /\ kT2 \in KeyTransactions
    /\ kPc = "input"
    /\ kKey1 = <<>>
    /\ kKey2 = <<>>

KeyIdle ==
    /\ kT1 = <<>>
    /\ kT2 = <<>>
    /\ kPc = "idle"
    /\ kKey1 = <<>>
    /\ kKey2 = <<>>

ComputeKeys ==
    /\ kPc = "input"
    /\ kKey1' = createTransactionKey(kT1)
    /\ kKey2' = createTransactionKey(kT2)
    /\ kPc' = "keyed"
    /\ UNCHANGED <<kT1, kT2>>
    /\ UNCHANGED <<pipelineVars, resolverVars, receiptVars, statementVars,
                   limiterVars, importVars, fieldsVars, exportVars>>

KeyNext == ComputeKeys

-----------------------------------------------------------------------------
(* The resolver on its own: getFullAccountName, statement by statement     *)

\* The ids the resolver is asked for: every id of the chart and absent ones.
ResolverInputs == AccountIds \cup {"9999", "5111", "4"}

ResolverIdle ==
    /\ rAccountId = ""
    /\ rPc = "idle"
    /\ rTop = 1
    /\ rCurrent = NullNode
    /\ rParts = <<>>
    /\ rResult = <<>>

ResolverInit ==
    /\ rAccountId \in ResolverInputs
    /\ rPc = "search"
    /\ rTop = 1
    /\ rCurrent = NullNode
    /\ rParts = <<>>
    /\ rResult = <<>>

\* for (const topAccount of ...) { current = findAccount(topAccount); if (current) break; }
SearchTopAccount ==
    /\ rPc = "search"
    /\ IF rTop > Len(CHART_OF_ACCOUNTS)
       THEN /\ rPc' = "walk"
            /\ UNCHANGED <<rTop, rCurrent>>
       ELSE LET current == findAccount(Account(CHART_OF_ACCOUNTS[rTop]), rAccountId)
            IN  /\ rCurrent' = current
                /\ rTop' = rTop + 1
                /\ rPc' = IF current # NullNode THEN "walk" ELSE "search"
    /\ UNCHANGED <<rAccountId, rParts, rResult>>
    /\ UNCHANGED <<pipelineVars, keyVars, receiptVars, statementVars,
                   limiterVars, importVars, fieldsVars, exportVars>>

\* while (current) { parts.unshift(current.name); current = parentId ? ... : null; }
WalkParents ==
    /\ rPc = "walk"
    /\ IF rCurrent = NullNode
       THEN /\ rPc' = "return"
            /\ UNCHANGED <<rCurrent, rParts>>
       ELSE LET s == walkStep(rCurrent, rParts, rAccountId)
            IN  /\ rCurrent' = s[1]
                /\ rParts' = s[2]
                /\ rPc' = "walk"
    /\ UNCHANGED <<rAccountId, rTop, rResult>>
    /\ UNCHANGED <<pipelineVars, keyVars, receiptVars, statementVars,
                   limiterVars, importVars, fieldsVars, exportVars>>

\* return parts.join(' > ');
ReturnName ==
    /\ rPc = "return"
    /\ rResult' = join(rParts)
    /\ rPc' = "done"
    /\ UNCHANGED <<rAccountId, rTop, rCurrent, rParts>>
    /\ UNCHANGED <<pipelineVars, keyVars, receiptVars, statementVars,
                   limiterVars, importVars, fieldsVars, exportVars>>

ResolverNext == SearchTopAccount \/ WalkParents \/ ReturnName

-----------------------------------------------------------------------------
(* Receipt enrichment of the later variant: the receipt loop of            *)
(* processTransactions, getReceiptData and aiExtractReceiptDetails         *)

MaxReceiptFields == 2

MaxReceiptRuns == 2

\* const maxAttempts = 3
maxAttempts == 3

\* JavaScript null in a transaction field
Null == "null"

\* The values a receipt URL field can hold: '' (no receipt), a PDF, a HEIC
\* image, any other URL.
ReceiptUrls == {"", "r.pdf", "r.heic", "r.jpg"}

\* imageUrl.toLowerCase().endsWith('.pdf') / ('.heic'): the file is downloaded
\* and converted
needsConversion(imageUrl) == imageUrl \in {"r.pdf", "r.heic"}

\* `${transaction.id}-${urlField}` for the transaction t1 and its k-th receipt
\* URL field
receiptIdOf(k) == <<"t1", "-", k>>

\* An object as the set of its <<key, value>> properties.
\* What execute(receipt) or execute(error) hands to resolve.
ToolResults ==
    { {<<"vendor_name", "acme">>, <<"total_amount_subunits", "1000">>},
      {<<"vendor_name", "acme">>},
      {<<"imageDescription", "blur">>, <<"error", "unreadable">>} }

\* JSON.parse(JSON.stringify(value)) of an object: properties whose value is
\* undefined are dropped
jsonRoundTrip(value) == {p \in value : p[2] # Undefined}

\* a file as whether it exists and the object its JSON text denotes
File(data) == [exists |-> TRUE, data |-> data]
NoFile == [exists |-> FALSE, data |-> {}]

\* JSON.parse(readFileSync(cacheFile)) after the file was created if missing
readCache(file) == IF file.exists THEN file.data ELSE {}

\* cachedData[receiptId] is truthy
isCached_NeverHit(cachedData, receiptId) == FALSE

isCached(cachedData, receiptId) == \E e \in cachedData : e[1] = receiptId

\* cachedData[receiptId]
cachedValue(cachedData, receiptId) ==
    (CHOOSE e \in cachedData : e[1] = receiptId)[2]

\* cachedData[receiptId] = extractedData; writeFileSync(cacheFile, JSON.stringify(...))
writeCache(cachedData, receiptId, value) ==
    {e \in cachedData : e[1] # receiptId} \cup {<<receiptId, jsonRoundTrip(value)>>}

ReceiptRunning == {"fields", "cache", "image", "attempt", "store", "classify", "persist"}

\* what is left once the process is gone or stuck
ReceiptStopped == {"crashed", "hung", "killed"}

\* the locals of getReceiptData and aiExtractReceiptDetails before a call
ExtractionReset ==
    /\ attempts' = 0
    /\ toolCalled' = FALSE
    /\ promise' = "none"
    /\ extractedData' = {}
    /\ modelCalls' = 0
    /\ callsAfterTool' = 0

ReceiptInit ==
    /\ receiptUrls \in UNION {[1..n -> ReceiptUrls] : n \in 1..MaxReceiptFields}
    /\ receiptPc = "fields"
    /\ urlField = 1
    /\ extractedContents = [k \in 1..Len(receiptUrls) |-> Undefined]
    /\ cacheFile = NoFile
    /\ attempts = 0
    /\ toolCalled = FALSE
    /\ promise = "none"
    /\ extractedData = {}
    /\ receiptRuns = 1
    /\ failure = "none"
    /\ modelCalls = 0
    /\ callsAfterTool = 0
    /\ returned = [k \in 1..Len(receiptUrls) |-> <<>>]
    /\ lateWork = {}

ReceiptIdle ==
    /\ receiptUrls = <<>>
    /\ receiptPc = "off"
    /\ urlField = 1
    /\ extractedContents = <<>>
    /\ cacheFile = NoFile
    /\ attempts = 0
    /\ toolCalled = FALSE
    /\ promise = "none"
    /\ extractedData = {}
    /\ receiptRuns = 0
    /\ failure = "none"
    /\ modelCalls = 0
    /\ callsAfterTool = 0
    /\ returned = <<>>
    /\ lateWork = {}

\* transaction[`${urlField}.extracted_contents`] = value, and on to the next field
recordContents(value) ==
    /\ extractedContents' = [extractedContents EXCEPT ![urlField] = value]
    /\ urlField' = urlField + 1
    /\ receiptPc' = "fields"

\* What a throw inside the async executor of `new Promise(async (resolve, reject) => ...)`
\* leads to: neither resolve nor reject is called, so the promise stays pending
\* and the rejection of the executor's own promise is unhandled. The process is
\* ended by the unhandled rejection, or it is left waiting on a promise that
\* never settles, as the runtime decides.
unhandledRejection(kind) ==
    /\ failure' = kind
    /\ receiptPc' \in {"crashed", "hung"}
    /\ UNCHANGED <<receiptUrls, urlField, extractedContents, cacheFile, attempts, toolCalled,
                   promise, extractedData, receiptRuns, modelCalls, callsAfterTool,
                   returned, lateWork>>

\* for (const urlField of receiptUrlFields) { const receiptUrl = transaction[urlField]; if (receiptUrl) ...
NextField ==
    /\ receiptPc = "fields"
    /\ IF urlField > Len(receiptUrls) THEN receiptPc' = "classify" /\ UNCHANGED urlField
       ELSE IF receiptUrls[urlField] = "" THEN urlField' = urlField + 1 /\ UNCHANGED receiptPc
       ELSE receiptPc' = "cache" /\ UNCHANGED urlField
    /\ ExtractionReset
    /\ UNCHANGED <<receiptUrls, extractedContents, cacheFile, receiptRuns, failure, returned,
                   lateWork>>
    /\ UNCHANGED <<pipelineVars, keyVars, resolverVars, statementVars,
                   limiterVars, importVars, fieldsVars, exportVars>>

\* getReceiptData up to its cache check: the file is created if missing and
\* read; a hit returns the cached value, a miss calls aiExtractReceiptDetails
ReadCache ==
    /\ receiptPc = "cache"
    /\ LET cachedData == readCache(cacheFile)
           receiptId == receiptIdOf(urlField)
       IN  /\ cacheFile' = File(cachedData)
           /\ IF isCached(cachedData, receiptId)
              THEN /\ recordContents(cachedValue(cachedData, receiptId))
                   /\ returned' = [returned EXCEPT
                                     ![urlField] = Append(@, cachedValue(cachedData, receiptId))]
                   /\ UNCHANGED promise
              ELSE /\ receiptPc' = "image"
                   /\ promise' = "pending"
                   /\ UNCHANGED <<urlField, extractedContents, returned>>
    /\ UNCHANGED <<receiptUrls, attempts, toolCalled, extractedData, receiptRuns, failure,
                   modelCalls, callsAfterTool, lateWork>>
    /\ UNCHANGED <<pipelineVars, keyVars, resolverVars, statementVars,
                   limiterVars, importVars, fieldsVars, exportVars>>

\* existsSync, writeFileSync, readFileSync or JSON.parse of getReceiptData throws:
\* the catch of processTransactions records null
CacheReadFails ==
    /\ receiptPc = "cache"
    /\ recordContents(Null)
    /\ failure' = "cache"
    /\ UNCHANGED <<receiptUrls, cacheFile, attempts, toolCalled, promise, extractedData,
                   receiptRuns, modelCalls, callsAfterTool, returned, lateWork>>
    /\ UNCHANGED <<pipelineVars, keyVars, resolverVars, statementVars,
                   limiterVars, importVars, fieldsVars, exportVars>>

\* the image is made ready: a PDF or HEIC file is downloaded and converted, any
\* other URL is wrapped in a URL object
PrepareImage ==
    /\ receiptPc = "image"
    /\ receiptPc' = "attempt"
    /\ lateWork' = IF returned[urlField] # <<>> THEN lateWork \cup {urlField} ELSE lateWork
    /\ UNCHANGED <<receiptUrls, urlField, extractedContents, cacheFile, attempts, toolCalled,
                   promise, extractedData, receiptRuns, failure, modelCalls, callsAfterTool,
                   returned>>
    /\ UNCHANGED <<pipelineVars, keyVars, resolverVars, statementVars,
                   limiterVars, importVars, fieldsVars, exportVars>>

\* fetch rejects, or writeFileSync / readFileSync throws
DownloadFails ==
    /\ receiptPc = "image"
    /\ needsConversion(receiptUrls[urlField])
    /\ unhandledRejection("download")
    /\ UNCHANGED <<pipelineVars, keyVars, resolverVars, statementVars,
                   limiterVars, importVars, fieldsVars, exportVars>>

\* imagemagick's convert calls back with an error: the inner promise rejects
ConversionFails ==
    /\ receiptPc = "image"
    /\ needsConversion(receiptUrls[urlField])
    /\ unhandledRejection("conversion")
    /\ UNCHANGED <<pipelineVars, keyVars, resolverVars, statementVars,
                   limiterVars, importVars, fieldsVars, exportVars>>

\* one turn of while (!toolCalled && attempts < maxAttempts): generateText
\* returns, the model having called a tool (execute resolves the promise with
\* its argument) or none
CallModel ==
    /\ receiptPc = "attempt"
    /\ ~toolCalled /\ attempts < maxAttempts
    /\ attempts' = attempts + 1
    /\ modelCalls' = modelCalls + 1
    /\ callsAfterTool' = IF toolCalled THEN callsAfterTool + 1 ELSE callsAfterTool
    /\ \/ \E receipt \in ToolResults :
            /\ toolCalled' = TRUE
            /\ extractedData' = receipt
            /\ promise' = "resolved"
       \/ UNCHANGED <<toolCalled, extractedData, promise>>
    /\ UNCHANGED <<receiptUrls, receiptPc, urlField, extractedContents, cacheFile, receiptRuns,
                   failure, returned, lateWork>>
    /\ UNCHANGED <<pipelineVars, keyVars, resolverVars, statementVars,
                   limiterVars, importVars, fieldsVars, exportVars>>

\* generateText rejects
ModelFails ==
    /\ receiptPc = "attempt"
    /\ ~toolCalled /\ attempts < maxAttempts
    /\ unhandledRejection("model")
    /\ UNCHANGED <<pipelineVars, keyVars, resolverVars, statementVars,
                   limiterVars, importVars, fieldsVars, exportVars>>

\* the loop is left with a tool called: getReceiptData goes on with the value
\* the promise was resolved with
ToolWasCalled ==
    /\ receiptPc = "attempt"
    /\ ~(~toolCalled /\ attempts < maxAttempts)
    /\ toolCalled
    /\ receiptPc' = "store"
    /\ UNCHANGED <<receiptUrls, urlField, extractedContents, cacheFile, attempts, toolCalled,
                   promise, extractedData, receiptRuns, failure, modelCalls, callsAfterTool,
                   returned, lateWork>>
    /\ UNCHANGED <<pipelineVars, keyVars, resolverVars, statementVars,
                   limiterVars, importVars, fieldsVars, exportVars>>

\* if (!toolCalled) throw new Error(...), inside the async executor
NoToolCalled ==
    /\ receiptPc = "attempt"
    /\ ~(~toolCalled /\ attempts < maxAttempts)
    /\ ~toolCalled
    /\ unhandledRejection("noTool")
    /\ UNCHANGED <<pipelineVars, keyVars, resolverVars, statementVars,
                   limiterVars, importVars, fieldsVars, exportVars>>

\* cachedData[receiptId] = extractedData; writeFileSync(...); return extractedData
CacheResult ==
    /\ receiptPc = "store"
    /\ cacheFile' = File(writeCache(cacheFile.data, receiptIdOf(urlField), extractedData))
    /\ recordContents(extractedData)
    /\ returned' = [returned EXCEPT ![urlField] = Append(@, extractedData)]
    /\ UNCHANGED <<receiptUrls, attempts, toolCalled, promise, extractedData, receiptRuns,
                   failure, modelCalls, callsAfterTool, lateWork>>
    /\ UNCHANGED <<pipelineVars, keyVars, resolverVars, statementVars,
                   limiterVars, importVars, fieldsVars, exportVars>>

\* writeFileSync of the cache throws: getReceiptData rejects and the catch of
\* processTransactions records null
CacheWriteFails ==
    /\ receiptPc = "store"
    /\ recordContents(Null)
    /\ failure' = "cache"
    /\ UNCHANGED <<receiptUrls, cacheFile, attempts, toolCalled, promise, extractedData,
                   receiptRuns, modelCalls, callsAfterTool, returned, lateWork>>
    /\ UNCHANGED <<pipelineVars, keyVars, resolverVars, statementVars,
                   limiterVars, importVars, fieldsVars, exportVars>>

\* the first generateObject call for the transaction, its receipts folded in
ClassifyWithReceipts ==
    /\ receiptPc = "classify"
    /\ receiptPc' = "persist"
    /\ UNCHANGED <<receiptUrls, urlField, extractedContents, cacheFile, attempts, toolCalled,
                   promise, extractedData, receiptRuns, failure, modelCalls, callsAfterTool,
                   returned, lateWork>>
    /\ UNCHANGED <<pipelineVars, keyVars, resolverVars, statementVars,
                   limiterVars, importVars, fieldsVars, exportVars>>

\* the line of the transaction is appended to processed.csv
PersistWithReceipts ==
    /\ receiptPc = "persist"
    /\ receiptPc' = "persisted"
    /\ UNCHANGED <<receiptUrls, urlField, extractedContents, cacheFile, attempts, toolCalled,
                   promise, extractedData, receiptRuns, failure, modelCalls, callsAfterTool,
                   returned, lateWork>>
    /\ UNCHANGED <<pipelineVars, keyVars, resolverVars, statementVars,
                   limiterVars, importVars, fieldsVars, exportVars>>

\* the process is killed before the line of the transaction is appended
KillReceipts ==
    /\ receiptPc \in ReceiptRunning
    /\ receiptPc' = "killed"
    /\ UNCHANGED <<receiptUrls, urlField, extractedContents, cacheFile, attempts, toolCalled,
                   promise, extractedData, receiptRuns, failure, modelCalls, callsAfterTool,
                   returned, lateWork>>
    /\ UNCHANGED <<pipelineVars, keyVars, resolverVars, statementVars,
                   limiterVars, importVars, fieldsVars, exportVars>>

\* The program is started again over the same input: the transaction has no
\* line in processed.csv yet, so its receipt fields are gone through again;
\* the cache file is what the earlier process left.
RestartReceipts ==
    /\ receiptPc \in ReceiptStopped
    /\ receiptRuns < MaxReceiptRuns
    /\ receiptRuns' = receiptRuns + 1
    /\ receiptPc' = "fields"
    /\ urlField' = 1
    /\ extractedContents' = [k \in 1..Len(receiptUrls) |-> Undefined]
    /\ failure' = "none"
    /\ ExtractionReset
    /\ UNCHANGED <<receiptUrls, cacheFile, returned, lateWork>>
    /\ UNCHANGED <<pipelineVars, keyVars, resolverVars, statementVars,
                   limiterVars, importVars, fieldsVars, exportVars>>

ReceiptNext ==
    \/ NextField
    \/ ReadCache
    \/ CacheReadFails
    \/ PrepareImage
    \/ DownloadFails
    \/ ConversionFails
    \/ CallModel
    \/ ModelFails
    \/ ToolWasCalled
    \/ NoToolCalled
    \/ CacheResult
    \/ CacheWriteFails
    \/ ClassifyWithReceipts
    \/ PersistWithReceipts
    \/ KillReceipts
    \/ RestartReceipts

-----------------------------------------------------------------------------
(* generateStatementOfActivity: dates, months and amounts                  *)

MaxRecords == 3

\* The calendar fields (UTC) of the days the dates of the store fall on; month
\* is 0-based as Date.prototype.getMonth has it.
calendar ==
    [day \in {"2024-03-01", "2024-03-15", "2024-07-04"} |->
        CASE day = "2024-03-01" -> [year |-> 2024, month |-> 2, date |-> 1]
          [] day = "2024-03-15" -> [year |-> 2024, month |-> 2, date |-> 15]
          [] day = "2024-07-04" -> [year |-> 2024, month |-> 6, date |-> 4]]

\* new Date(text) of a field of the store: Invalid Date for '' and for any text
\* that is no date
InvalidDate == [type |-> "Date", day |-> "Invalid", time |-> "Invalid"]

dateOf(text) ==
    IF text # <<>> /\ text[1] \in DOMAIN calendar THEN newDate(text) ELSE InvalidDate

\* date.getFullYear() and the 0-based date.getMonth() of a valid date: they
\* answer in the local time of the process, toISOString in UTC. The process
\* runs in UTC or in a time zone behind UTC, where midnight UTC is an hour of
\* the day before.
localMonth(date, tz) ==
    LET c == calendar[date.day]
        dayBefore == tz = "behind" /\ date.time = "00:00:00.000Z"
    IN  IF dayBefore /\ c.date = 1
        THEN IF c.month = 0 THEN [year |-> c.year - 1, month |-> 11]
             ELSE [year |-> c.year, month |-> c.month - 1]
        ELSE [year |-> c.year, month |-> c.month]

\* `${date.getFullYear()}-${String(date.getMonth() + 1).padStart(2, '0')}`: the
\* text YYYY-MM, kept as its two numbers; 'NaN-NaN' for an Invalid Date
NaNMonthKey == [year |-> -1, month |-> -1]

monthKeyOf(date, tz) ==
    IF date = InvalidDate THEN NaNMonthKey
    ELSE [year |-> localMonth(date, tz).year, month |-> localMonth(date, tz).month + 1]

\* Array.from(sortedMonths).sort(): sort() compares the texts, which for
\* years of four digits is the order of (year, month)
RECURSIVE insertSorted(_, _)
insertSorted(sorted, key) ==
    IF sorted = <<>> THEN <<key>>
    ELSE IF \/ key.year < Head(sorted).year
            \/ (key.year = Head(sorted).year /\ key.month < Head(sorted).month)
         THEN <<key>> \o sorted
    ELSE <<Head(sorted)>> \o insertSorted(Tail(sorted), key)

RECURSIVE sortMonths(_)
sortMonths(months) ==
    IF months = <<>> THEN <<>>
    ELSE insertSorted(sortMonths(Tail(months)), Head(months))

\* new Date(parseInt(year), parseInt(monthNum) - 1).toLocaleString('default',
\* { month: 'short', year: 'numeric' })
monthHeader(key) ==
    IF key = NaNMonthKey THEN <<"Invalid Date">>
    ELSE << <<"Jan", "Feb", "Mar", "Apr", "May", "Jun",
              "Jul", "Aug", "Sep", "Oct", "Nov", "Dec">>[key.month],
            " ", ToString(key.year) >>

\* A number of the worksheet, as the count of its hundredths: Hundredths(n)
\* is n / 100.
Hundredths(n) == [type |-> "number", hundredths |-> n, text |-> <<>>]

\* a string in a cell of a month column: '' or the header of the month
TextCell(text) == [type |-> "string", hundredths |-> 0, text |-> text]

\* What identifyFields can return for the headers of processed.csv: the model
\* answers with any two strings; these name the columns date and amount, the
\* column accountId as the amount, and the column description as the date.
FieldAnswers ==
    { [dateField |-> "date", amountField |-> "amount"],
      [dateField |-> "date", amountField |-> "accountId"],
      [dateField |-> "description", amountField |-> "amount"] }

NoFields == [dateField |-> "", amountField |-> ""]

\* record[field] as text
fieldOf(record, field) == IF field = "accountId" THEN <<record.accountId>> ELSE record[field]

\* parseFloat(record[amountField]) / 100
amountOf(record, amountField) ==
    Hundredths(CHOOSE n \in Numbers \cup {4100, 5400, 5410, 5430, 9999} :
                   fieldOf(record, amountField) = <<ToString(n)>>)

\* What date.toISOString().split('T')[0] does for a bucketed record:
\* toISOString throws a RangeError on an Invalid Date.
Throws == <<"RangeError">>

isoDayOf_Placeholder(date) ==
    IF date = InvalidDate THEN <<"Invalid Date">> ELSE splitT0(toISOString(date))

isoDayOf(date) ==
    IF date = InvalidDate THEN Throws ELSE splitT0(toISOString(date))

\* A record of processed.csv as parse returns it
StoreRecord(id, day, time, amount, description) ==
    [ accountId |-> id,
      date |-> IF day = "" THEN <<>> ELSE <<day, "T", time>>,
      amount |-> <<amount>>,
      description |-> <<description>>,
      memo |-> <<>> ]

\* The records the store is made of: an income leaf, two leaves below the same
\* account, a date at the first midnight (UTC) of a month, an account that has
\* subAccounts, a record without a date, and an accountId that no account of
\* the chart has.
StoreRecords ==
    { StoreRecord("4100", "2024-03-15", "12:00:00.000Z", "1000", "a"),
      StoreRecord("5410", "2024-03-15", "12:00:00.000Z", "-250", "b"),
      StoreRecord("5430", "2024-07-04", "12:00:00.000Z", "1000", "c"),
      StoreRecord("5410", "2024-03-01", "00:00:00.000Z", "-250", "d"),
      StoreRecord("5400", "2024-03-15", "12:00:00.000Z", "-250", "e"),
      StoreRecord("5410", "", "", "-250", "f"),
      StoreRecord("9999", "2024-03-15", "12:00:00.000Z", "1000", "g") }

-----------------------------------------------------------------------------
(* generateStatementOfActivity: buckets and rows                           *)

\* One element of transactionsByAccount[accountId]
Trans(record, date, tz, amountField) ==
    [ date |-> isoDayOf(date),
      amount |-> amountOf(record, amountField),
      description |-> Or(Or(record.description, record.memo), <<>>),
      monthKey |-> monthKeyOf(date, tz) ]

\* if (!transactionsByAccount[accountId]) ... = []; ... .push(trans)
pushTransaction(byAccount, id, trans) ==
    [x \in DOMAIN byAccount \cup {id} |->
        IF x = id
        THEN (IF id \in DOMAIN byAccount THEN Append(byAccount[id], trans) ELSE <<trans>>)
        ELSE byAccount[x]]

\* monthlyTotals[monthKey][accountId] += amount, both levels created at need
addToTotals(totals, key, id, amount) ==
    [x \in DOMAIN totals \cup {<<key, id>>} |->
        IF x = <<key, id>>
        THEN Hundredths((IF x \in DOMAIN totals THEN totals[x].hundredths ELSE 0)
                        + amount.hundredths)
        ELSE totals[x]]

\* function sumAccount(acc): what it adds to `total` for acc and below
RECURSIVE sumAccount(_, _, _), sumSubAccounts(_, _, _, _)
sumAccount(acc, month, totals) ==
    (IF <<month, acc.id>> \in DOMAIN totals /\ totals[<<month, acc.id>>].hundredths # 0
     THEN totals[<<month, acc.id>>].hundredths ELSE 0)
    + sumSubAccounts(acc.subAccounts, 1, month, totals)

sumSubAccounts(subAccounts, k, month, totals) ==
    IF k > Len(subAccounts) THEN 0
    ELSE sumAccount(Account(subAccounts[k]), month, totals)
         + sumSubAccounts(subAccounts, k + 1, month, totals)

\* const totals = sortedMonthsArray.map(month => ...)
totalsOf(account, months, totals) ==
    [c \in 1..Len(months) |-> Hundredths(sumAccount(account, months[c], totals))]

\* a row of wsData with the entry of outlineLevels for it; the first cell,
\* '  '.repeat(indent) + name, is kept as the indent and the name
Entry(indent, name, id, date, description, values, level, isTransaction, isHeader) ==
    [ label |-> [indent |-> indent, text |-> name], accountId |-> id, date |-> date, description |-> description,
      values |-> values,
      level |-> level, isTransaction |-> isTransaction, isHeader |-> isHeader ]

\* const summaryRow = [indentedName, account.id, '', '', ...totals]
summaryRow(account, level, months, totals) ==
    Entry(level, account.name, account.id, <<>>, <<>>,
          totalsOf(account, months, totals), level, FALSE, FALSE)

\* sortedMonthsArray.findIndex(m => m === trans.monthKey), 0 for -1
findIndex(months, key) ==
    IF \E c \in 1..Len(months) : months[c] = key
    THEN CHOOSE c \in 1..Len(months) :
             months[c] = key /\ \A b \in 1..(c - 1) : months[b] # key
    ELSE 0

\* const transRow = new Array(headerRow.length).fill(''); ...
transRow(account, level, months, trans) ==
    LET monthIndex == findIndex(months, trans.monthKey)
    IN  Entry(level + 1, account.name, account.id, trans.date, trans.description,
              [c \in 1..Len(months) |-> IF c = monthIndex THEN trans.amount ELSE TextCell(<<>>)],
              level + 1, TRUE, FALSE)

\* the rows of an account with the summary row put last
orderRows_SummaryLast(summary, transRows, subRows) == transRows \o subRows \o <<summary>>

\* the order addAccountRows pushes in: the summary row, the transaction rows,
\* then the rows of the sub-accounts
orderRows(summary, transRows, subRows) == <<summary>> \o transRows \o subRows

\* function addAccountRows(account, level): the rows it pushes
RECURSIVE addAccountRows(_, _, _, _, _), addSubAccountRows(_, _, _, _, _, _)
addAccountRows(account, level, months, byAccount, totals) ==
    orderRows(
        summaryRow(account, level, months, totals),
        IF account.subAccounts = <<>> /\ account.id \in DOMAIN byAccount
        THEN [j \in 1..Len(byAccount[account.id]) |->
                 transRow(account, level, months, byAccount[account.id][j])]
        ELSE <<>>,
        addSubAccountRows(account.subAccounts, 1, level, months, byAccount, totals))

addSubAccountRows(subAccounts, k, level, months, byAccount, totals) ==
    IF k > Len(subAccounts) THEN <<>>
    ELSE addAccountRows(Account(subAccounts[k]), level + 1, months, byAccount, totals)
         \o addSubAccountRows(subAccounts, k + 1, level, months, byAccount, totals)

\* a row that belongs to no account: a header, a total or a blank row
plainRow(text, values, isHeader) ==
    Entry(0, text, "", <<>>, <<>>, values, 0, FALSE, isHeader)

\* ...sortedMonthsArray.map(() => '')
blanks(months) == [c \in 1..Len(months) |-> TextCell(<<>>)]

\* inc - expenseSection.totals[idx], summed instead
netIncome_Sum(income, expenses) ==
    [c \in 1..Len(income) |->
        Hundredths(income[c].hundredths + expenses[c].hundredths)]

\* incomeSection.totals.map((inc, idx) => inc - expenseSection.totals[idx])
netIncome(income, expenses) ==
    [c \in 1..Len(income) |->
        Hundredths(income[c].hundredths - expenses[c].hundredths)]

\* row.hidden of the rows of the sheet: true for the transaction rows
hiddenRows(entries) == [r \in 1..Len(entries) |-> entries[r].isTransaction]

NoWorkbook == [written |-> FALSE, rows |-> <<>>, hidden |-> <<>>]

-----------------------------------------------------------------------------
(* generateStatementOfActivity, step by step                               *)

StatementInit ==
    /\ timeZone \in {"UTC", "behind"}
    /\ storeRecords \in UNION {[1..n -> StoreRecords] : n \in 0..MaxRecords}
    /\ sPc = "load"
    /\ sError = "none"
    /\ recordIndex = 1
    /\ transactionsByAccount = <<>>
    /\ monthlyTotals = <<>>
    /\ sortedMonths = <<>>
    /\ sortedMonthsArray = <<>>
    /\ wsData = <<>>
    /\ incomeTotals = <<>>
    /\ expenseTotals = <<>>
    /\ workbook = NoWorkbook
    /\ identified = NoFields
    /\ firstWorkbook = NoWorkbook

StatementIdle ==
    /\ timeZone = "UTC"
    /\ storeRecords = <<>>
    /\ sPc = "off"
    /\ sError = "none"
    /\ recordIndex = 1
    /\ transactionsByAccount = <<>>
    /\ monthlyTotals = <<>>
    /\ sortedMonths = <<>>
    /\ sortedMonthsArray = <<>>
    /\ wsData = <<>>
    /\ incomeTotals = <<>>
    /\ expenseTotals = <<>>
    /\ workbook = NoWorkbook
    /\ identified = NoFields
    /\ firstWorkbook = NoWorkbook

\* the file is read and parsed; if (records.length === 0) throw ...; then
\* identifyFields(Object.keys(records[0])) returns what the model answered
LoadStore ==
    /\ sPc = "load"
    /\ IF Len(storeRecords) = 0
       THEN sPc' = "failed" /\ sError' = "InputFault" /\ UNCHANGED identified
       ELSE sPc' = "bucket" /\ UNCHANGED sError /\ identified' \in FieldAnswers
    /\ UNCHANGED <<timeZone, storeRecords, firstWorkbook, recordIndex, transactionsByAccount, monthlyTotals,
                   sortedMonths, sortedMonthsArray, wsData, incomeTotals, expenseTotals,
                   workbook>>
    /\ UNCHANGED <<pipelineVars, keyVars, resolverVars, receiptVars,
                   limiterVars, importVars, fieldsVars, exportVars>>

\* one turn of records.forEach(record => ...)
BucketRecord ==
    /\ sPc = "bucket"
    /\ recordIndex <= Len(storeRecords)
    /\ LET record == storeRecords[recordIndex]
           date == dateOf(fieldOf(record, identified.dateField))
           monthKey == monthKeyOf(date, timeZone)
       IN  /\ sortedMonths' =
                IF \E j \in 1..Len(sortedMonths) : sortedMonths[j] = monthKey
                THEN sortedMonths ELSE Append(sortedMonths, monthKey)
           /\ IF isoDayOf(date) = Throws
              THEN /\ sPc' = "failed"
                   /\ sError' = "RangeError"
                   /\ UNCHANGED <<recordIndex, transactionsByAccount, monthlyTotals>>
              ELSE /\ transactionsByAccount' =
                        pushTransaction(transactionsByAccount, record.accountId,
                                        Trans(record, date, timeZone, identified.amountField))
                   /\ monthlyTotals' =
                        addToTotals(monthlyTotals, monthKey, record.accountId,
                                    amountOf(record, identified.amountField))
                   /\ recordIndex' = recordIndex + 1
                   /\ UNCHANGED <<sPc, sError>>
    /\ UNCHANGED <<timeZone, storeRecords, identified, firstWorkbook, sortedMonthsArray, wsData, incomeTotals, expenseTotals,
                   workbook>>
    /\ UNCHANGED <<pipelineVars, keyVars, resolverVars, receiptVars,
                   limiterVars, importVars, fieldsVars, exportVars>>

\* const sortedMonthsArray = Array.from(sortedMonths).sort(); the header row
\* and the INCOME row are pushed
AddHeaderRows ==
    /\ sPc = "bucket"
    /\ recordIndex > Len(storeRecords)
    /\ LET months == sortMonths(sortedMonths)
       IN  /\ sortedMonthsArray' = months
           /\ wsData' =
                << Entry(0, "Account", "Account ID", <<"Date">>, <<"Description">>,
                         [c \in 1..Len(months) |-> TextCell(monthHeader(months[c]))],
                         0, FALSE, TRUE),
                   plainRow("INCOME", blanks(months), TRUE) >>
    /\ sPc' = "income"
    /\ UNCHANGED <<timeZone, storeRecords, identified, firstWorkbook, sError, recordIndex, transactionsByAccount, monthlyTotals,
                   sortedMonths, incomeTotals, expenseTotals, workbook>>
    /\ UNCHANGED <<pipelineVars, keyVars, resolverVars, receiptVars,
                   limiterVars, importVars, fieldsVars, exportVars>>

\* const incomeSection = addAccountRows(CHART_OF_ACCOUNTS.income, 1); the
\* Total Income row and a blank row follow
AddIncomeSection ==
    /\ sPc = "income"
    /\ LET income == Account(CHART_OF_ACCOUNTS[1])
           totals == totalsOf(income, sortedMonthsArray, monthlyTotals)
       IN  /\ incomeTotals' = totals
           /\ wsData' = wsData
                \o addAccountRows(income, 1, sortedMonthsArray, transactionsByAccount,
                                  monthlyTotals)
                \o << plainRow("Total Income", totals, TRUE),
                      plainRow("", blanks(sortedMonthsArray), FALSE) >>
    /\ sPc' = "expenses"
    /\ UNCHANGED <<timeZone, storeRecords, identified, firstWorkbook, sError, recordIndex, transactionsByAccount, monthlyTotals,
                   sortedMonths, sortedMonthsArray, expenseTotals, workbook>>
    /\ UNCHANGED <<pipelineVars, keyVars, resolverVars, receiptVars,
                   limiterVars, importVars, fieldsVars, exportVars>>

\* the EXPENSES row, addAccountRows(CHART_OF_ACCOUNTS.expenses, 1), the Total
\* Expenses row and a blank row
AddExpensesSection ==
    /\ sPc = "expenses"
    /\ LET expenses == Account(CHART_OF_ACCOUNTS[2])
           totals == totalsOf(expenses, sortedMonthsArray, monthlyTotals)
       IN  /\ expenseTotals' = totals
           /\ wsData' = wsData
                \o << plainRow("EXPENSES", blanks(sortedMonthsArray), TRUE) >>
                \o addAccountRows(expenses, 1, sortedMonthsArray, transactionsByAccount,
                                  monthlyTotals)
                \o << plainRow("Total Expenses", totals, TRUE),
                      plainRow("", blanks(sortedMonthsArray), FALSE) >>
    /\ sPc' = "net"
    /\ UNCHANGED <<timeZone, storeRecords, identified, firstWorkbook, sError, recordIndex, transactionsByAccount, monthlyTotals,
                   sortedMonths, sortedMonthsArray, incomeTotals, workbook>>
    /\ UNCHANGED <<pipelineVars, keyVars, resolverVars, receiptVars,
                   limiterVars, importVars, fieldsVars, exportVars>>

\* the Net Income row
AddNetIncome ==
    /\ sPc = "net"
    /\ wsData' = Append(wsData, plainRow("Net Income", netIncome(incomeTotals, expenseTotals), TRUE))
    /\ sPc' = "sheet"
    /\ UNCHANGED <<timeZone, storeRecords, identified, firstWorkbook, sError, recordIndex, transactionsByAccount, monthlyTotals,
                   sortedMonths, sortedMonthsArray, incomeTotals, expenseTotals, workbook>>
    /\ UNCHANGED <<pipelineVars, keyVars, resolverVars, receiptVars,
                   limiterVars, importVars, fieldsVars, exportVars>>

\* the sheet is built, its rows get their level and hidden flag, and
\* XLSX.writeFile writes statement-of-activity.xlsx
WriteWorkbook ==
    /\ sPc = "sheet"
    /\ workbook' = [written |-> TRUE, rows |-> wsData, hidden |-> hiddenRows(wsData)]
    /\ sPc' = "written"
    /\ UNCHANGED <<timeZone, storeRecords, identified, firstWorkbook, sError, recordIndex, transactionsByAccount, monthlyTotals,
                   sortedMonths, sortedMonthsArray, wsData, incomeTotals, expenseTotals>>
    /\ UNCHANGED <<pipelineVars, keyVars, resolverVars, receiptVars,
                   limiterVars, importVars, fieldsVars, exportVars>>

\* XLSX.writeFile throws
WriteWorkbookFails ==
    /\ sPc = "sheet"
    /\ sPc' = "failed"
    /\ sError' = "IOFault"
    /\ UNCHANGED <<timeZone, storeRecords, identified, firstWorkbook, recordIndex, transactionsByAccount, monthlyTotals,
                   sortedMonths, sortedMonthsArray, wsData, incomeTotals, expenseTotals,
                   workbook>>
    /\ UNCHANGED <<pipelineVars, keyVars, resolverVars, receiptVars,
                   limiterVars, importVars, fieldsVars, exportVars>>

\* generateStatementOfActivity is called again over the same processed.csv
RunAgain ==
    /\ sPc = "written"
    /\ ~firstWorkbook.written
    /\ firstWorkbook' = workbook
    /\ sPc' = "load"
    /\ identified' = NoFields
    /\ recordIndex' = 1
    /\ transactionsByAccount' = <<>>
    /\ monthlyTotals' = <<>>
    /\ sortedMonths' = <<>>
    /\ sortedMonthsArray' = <<>>
    /\ wsData' = <<>>
    /\ incomeTotals' = <<>>
    /\ expenseTotals' = <<>>
    /\ UNCHANGED <<timeZone, storeRecords, sError, workbook>>
    /\ UNCHANGED <<pipelineVars, keyVars, resolverVars, receiptVars,
                   limiterVars, importVars, fieldsVars, exportVars>>

StatementNext ==
    \/ LoadStore
    \/ BucketRecord
    \/ AddHeaderRows
    \/ AddIncomeSection
    \/ AddExpensesSection
    \/ AddNetIncome
    \/ WriteWorkbook
    \/ WriteWorkbookFails

-----------------------------------------------------------------------------
(* RateLimiter                                                             *)

\* new RateLimiter(maxTokens, refillInterval): the budget of a window and the
\* length of a window in ticks of the clock, scaled down from 900 and 5 * 60 * 1000
maxTokens == 2
refillInterval == 3

\* how far the clock runs and how many calls of getToken are made
MaxTime == 7
MaxCalls == 5

\* constructor: this.tokens = maxTokens; this.lastRefill = Date.now()
LimiterInit ==
    /\ now = 0
    /\ tokens = maxTokens
    /\ lastRefill = 0
    /\ lPc = "idle"
    /\ wakeAt = 0
    /\ returnTimes = <<>>
    /\ waited = 0

LimiterIdle ==
    /\ now = 0
    /\ tokens = maxTokens
    /\ lastRefill = 0
    /\ lPc = "off"
    /\ wakeAt = 0
    /\ returnTimes = <<>>
    /\ waited = 0

\* an exhausted budget answered with an exception
exhausted_Throws(left) == IF left <= 0 THEN "failed" ELSE "idle"

\* if (this.tokens <= 0) { ... await new Promise(resolve => setTimeout(resolve, waitTime)) ... }:
\* where getToken is after its check of the budget
exhausted(left) == IF left <= 0 THEN "sleeping" ELSE "idle"

\* getToken is called, by a caller that awaits it before it calls again: the
\* window is refilled when it is over; with budget left a token is taken and
\* the call returns, without budget the call sleeps for the rest of the window
GetToken ==
    /\ lPc = "idle"
    /\ Len(returnTimes) + 1 <= MaxCalls
    /\ now + refillInterval <= MaxTime
    /\ LET timePassed == now - lastRefill
           refill == timePassed >= refillInterval
           left == IF refill THEN maxTokens ELSE tokens
       IN  /\ lastRefill' = IF refill THEN now ELSE lastRefill
           /\ lPc' = exhausted(left)
           /\ IF left <= 0
              THEN /\ wakeAt' = now + (refillInterval - timePassed)
                   /\ waited' = waited + 1
                   /\ tokens' = left
                   /\ UNCHANGED returnTimes
              ELSE /\ tokens' = left - 1
                   /\ returnTimes' = Append(returnTimes, now)
                   /\ UNCHANGED <<wakeAt, waited>>
    /\ UNCHANGED now
    /\ UNCHANGED <<pipelineVars, keyVars, resolverVars, receiptVars, statementVars,
                   importVars, fieldsVars, exportVars>>

\* the timer of setTimeout fires, at its time or later: this.tokens =
\* this.maxTokens; this.lastRefill = Date.now(); this.tokens--; and the call returns
Wake ==
    /\ lPc = "sleeping"
    /\ now >= wakeAt
    /\ tokens' = maxTokens - 1
    /\ lastRefill' = now
    /\ returnTimes' = Append(returnTimes, now)
    /\ lPc' = "idle"
    /\ UNCHANGED <<now, wakeAt, waited>>
    /\ UNCHANGED <<pipelineVars, keyVars, resolverVars, receiptVars, statementVars,
                   importVars, fieldsVars, exportVars>>

\* Date.now() advances
Tick ==
    /\ lPc \in {"idle", "sleeping"}
    /\ now + 1 <= MaxTime
    /\ now' = now + 1
    /\ UNCHANGED <<tokens, lastRefill, lPc, wakeAt, returnTimes, waited>>
    /\ UNCHANGED <<pipelineVars, keyVars, resolverVars, receiptVars, statementVars,
                   importVars, fieldsVars, exportVars>>

LimiterNext ==
    \/ GetToken
    \/ Wake
    \/ Tick

-----------------------------------------------------------------------------
(* hcb_import: fetchAllTransactions and processCounterspells                *)

\* how many pages the ledger API is asked for per organization
MaxPages == 2

\* counterspells.json: the organizations to import
CounterspellFiles == {<<>>, <<"o1">>, <<"o1", "o2">>, <<"o1", "o2", "o3">>}

\* What the ledger API answers a page request with: a response that is not
\* ok, or data (the ids of up to two transactions) and has_more.
PageResponses ==
    { [ok |-> FALSE, data |-> <<>>, has_more |-> FALSE] }
    \cup { [ok |-> TRUE, data |-> d, has_more |-> m] :
             d \in {<<>>, <<"t1", "t2">>}, m \in BOOLEAN }

\* JavaScript null where a cursor is expected
NoCursor == "null"

NoOutput == [exists |-> FALSE, content |-> <<>>]

ImportInit ==
    /\ hcbToken \in {"", "token"}
    /\ counterspellsData \in CounterspellFiles
    /\ iPc = "start"
    /\ exitCode = 0
    /\ orgIndex = 1
    /\ organizations = <<>>
    /\ outputFile = NoOutput
    /\ fetched = <<>>
    /\ hasMore = TRUE
    /\ after = NoCursor
    /\ pageLog = <<>>
    /\ requestCount = 0
    /\ delivered = <<>>
    /\ failedOrgs = {}
    /\ restarted = FALSE
    /\ savedEarlier = {}

ImportIdle ==
    /\ hcbToken = ""
    /\ counterspellsData = <<>>
    /\ iPc = "off"
    /\ exitCode = 0
    /\ orgIndex = 1
    /\ organizations = <<>>
    /\ outputFile = NoOutput
    /\ fetched = <<>>
    /\ hasMore = TRUE
    /\ after = NoCursor
    /\ pageLog = <<>>
    /\ requestCount = 0
    /\ delivered = <<>>
    /\ failedOrgs = {}
    /\ restarted = FALSE
    /\ savedEarlier = {}

\* the check of the token left out
tokenMissing_Ignored(token) == FALSE

\* !process.env.HCB_TOKEN
tokenMissing(token) == token = ""

\* The module is evaluated: counterspells.json is read, and without a token
\* the script prints the request to set it and calls process.exit(1).
CheckToken ==
    /\ iPc = "start"
    /\ IF tokenMissing(hcbToken)
       THEN iPc' = "exited" /\ exitCode' = 1
       ELSE iPc' = "org" /\ UNCHANGED exitCode
    /\ UNCHANGED <<restarted, savedEarlier>>
    /\ UNCHANGED <<hcbToken, counterspellsData, orgIndex, organizations, outputFile, fetched,
                   hasMore, after, pageLog, requestCount, delivered, failedOrgs>>
    /\ UNCHANGED <<pipelineVars, keyVars, resolverVars, receiptVars, statementVars,
                   limiterVars, fieldsVars, exportVars>>

\* for (const counterspell of counterspellsData): fetchAllTransactions begins
\* with an empty array, hasMore = true and after = null
BeginOrganization ==
    /\ iPc = "org"
    /\ orgIndex <= Len(counterspellsData)
    /\ iPc' = "page"
    /\ fetched' = <<>>
    /\ hasMore' = TRUE
    /\ after' = NoCursor
    /\ pageLog' = <<>>
    /\ delivered' = Append(delivered, <<>>)
    /\ UNCHANGED <<restarted, savedEarlier>>
    /\ UNCHANGED <<hcbToken, counterspellsData, exitCode, orgIndex, organizations, outputFile,
                   requestCount, failedOrgs>>
    /\ UNCHANGED <<pipelineVars, keyVars, resolverVars, receiptVars, statementVars,
                   limiterVars, fieldsVars, exportVars>>

\* One turn of while (hasMore): the page is requested with the cursor; a
\* response that is not ok makes fetchAllTransactions return []; otherwise the
\* receipts of each transaction are requested, the page is pushed, hasMore and
\* the cursor are updated.
FetchPage ==
    /\ iPc = "page"
    /\ hasMore
    /\ Len(pageLog) + 1 <= MaxPages
    /\ \E response \in PageResponses :
         /\ pageLog' = Append(pageLog, [after |-> after, response |-> response])
         /\ IF ~response.ok
            THEN /\ fetched' = <<>>
                 /\ iPc' = "write"
                 /\ requestCount' = requestCount + 1
                 /\ failedOrgs' = failedOrgs \cup {orgIndex}
                 /\ UNCHANGED <<hasMore, after, delivered>>
            ELSE /\ fetched' = fetched \o response.data
                 /\ hasMore' = response.has_more
                 /\ after' = IF response.has_more /\ Len(response.data) > 0
                             THEN response.data[Len(response.data)]
                             ELSE after
                 /\ requestCount' = requestCount + 1 + Len(response.data)
                 /\ delivered' = [delivered EXCEPT ![orgIndex] = @ \o response.data]
                 /\ UNCHANGED <<iPc, failedOrgs>>
    /\ UNCHANGED <<restarted, savedEarlier>>
    /\ UNCHANGED <<hcbToken, counterspellsData, exitCode, orgIndex, organizations, outputFile>>
    /\ UNCHANGED <<pipelineVars, keyVars, resolverVars, receiptVars, statementVars,
                   limiterVars, fieldsVars, exportVars>>

\* fetch rejects, for a page or for the receipts of a transaction: nothing
\* catches it, the script ends with an uncaught error
FetchThrows ==
    /\ iPc = "page"
    /\ hasMore
    /\ Len(pageLog) + 1 <= MaxPages
    /\ iPc' = "crashed"
    /\ exitCode' = 1
    /\ requestCount' = requestCount + 1
    /\ failedOrgs' = failedOrgs \cup {orgIndex}
    /\ UNCHANGED <<restarted, savedEarlier>>
    /\ UNCHANGED <<hcbToken, counterspellsData, orgIndex, organizations, outputFile, fetched,
                   hasMore, after, pageLog, delivered>>
    /\ UNCHANGED <<pipelineVars, keyVars, resolverVars, receiptVars, statementVars,
                   limiterVars, fieldsVars, exportVars>>

\* while (hasMore) is over: return transactions
ReturnTransactions ==
    /\ iPc = "page"
    /\ ~hasMore
    /\ iPc' = "write"
    /\ UNCHANGED <<restarted, savedEarlier>>
    /\ UNCHANGED <<hcbToken, counterspellsData, exitCode, orgIndex, organizations, outputFile,
                   fetched, hasMore, after, pageLog, requestCount, delivered, failedOrgs>>
    /\ UNCHANGED <<pipelineVars, keyVars, resolverVars, receiptVars, statementVars,
                   limiterVars, fieldsVars, exportVars>>

\* organizations.push({ ...counterspell, transactions }); Bun.write of the
\* whole array to all_transactions.json
WriteOrganizations ==
    /\ iPc = "write"
    /\ LET pushed == Append(organizations,
                            [id |-> counterspellsData[orgIndex], transactions |-> fetched])
       IN  /\ organizations' = pushed
           /\ outputFile' = [exists |-> TRUE, content |-> pushed]
    /\ orgIndex' = orgIndex + 1
    /\ iPc' = "org"
    /\ UNCHANGED <<restarted, savedEarlier>>
    /\ UNCHANGED <<hcbToken, counterspellsData, exitCode, fetched, hasMore, after, pageLog,
                   requestCount, delivered, failedOrgs>>
    /\ UNCHANGED <<pipelineVars, keyVars, resolverVars, receiptVars, statementVars,
                   limiterVars, fieldsVars, exportVars>>

\* the loop over counterspellsData is over: the script ends
FinishImport ==
    /\ iPc = "org"
    /\ orgIndex > Len(counterspellsData)
    /\ iPc' = "done"
    /\ UNCHANGED <<restarted, savedEarlier>>
    /\ UNCHANGED <<hcbToken, counterspellsData, exitCode, orgIndex, organizations, outputFile,
                   fetched, hasMore, after, pageLog, requestCount, delivered, failedOrgs>>
    /\ UNCHANGED <<pipelineVars, keyVars, resolverVars, receiptVars, statementVars,
                   limiterVars, fieldsVars, exportVars>>

\* The script is started again after it ended with an uncaught error: the
\* module is evaluated anew, processCounterspells begins with organizations =
\* [], and all_transactions.json is as the earlier run left it.
RestartImport ==
    /\ iPc = "crashed"
    /\ ~restarted
    /\ restarted' = TRUE
    /\ savedEarlier' = {outputFile.content[j].id : j \in 1..Len(outputFile.content)}
    /\ iPc' = "start"
    /\ exitCode' = 0
    /\ orgIndex' = 1
    /\ organizations' = <<>>
    /\ fetched' = <<>>
    /\ hasMore' = TRUE
    /\ after' = NoCursor
    /\ pageLog' = <<>>
    /\ delivered' = <<>>
    /\ failedOrgs' = {}
    /\ UNCHANGED <<hcbToken, counterspellsData, outputFile, requestCount>>
    /\ UNCHANGED <<pipelineVars, keyVars, resolverVars, receiptVars, statementVars,
                   limiterVars, fieldsVars, exportVars>>

ImportNext ==
    \/ RestartImport
    \/ CheckToken
    \/ BeginOrganization
    \/ FetchPage
    \/ FetchThrows
    \/ ReturnTransactions
    \/ WriteOrganizations
    \/ FinishImport

-----------------------------------------------------------------------------
(* processTransactions with receipts: the fields of processed.csv          *)

\* how many transactions the input has
MaxReceiptTransactions == 2

\* the columns of the input that hold the URL of a receipt
receiptUrlFields == <<"receipt_url", "receipt2_url">>

\* RECURSIVE helper of extractedKeys: the keys added for the fields from k on
RECURSIVE extractedKeysFrom(_, _)
extractedKeysFrom(urls, k) ==
    IF k > Len(urls) THEN <<>>
    ELSE (IF urls[k] # "" THEN << <<receiptUrlFields[k], ".extracted_contents">> >> ELSE <<>>)
         \o extractedKeysFrom(urls, k + 1)

\* Object.keys(transaction) when the line is built: the keys loadTransactions
\* gave the object, then `${urlField}.extracted_contents` for every receipt
\* field with a URL, set to the extracted data or to null, then accountName
transactionKeys(urls) ==
    << <<"date">>, <<"amount">>, <<"category">>, <<"accountId">>, <<"description">>, <<"id">> >>
    \o [k \in 1..Len(receiptUrlFields) |-> <<receiptUrlFields[k]>>]
    \o extractedKeysFrom(urls, 1)
    \o << <<"accountName">> >>

\* ['date', 'amount', 'category', 'accountId', ...Object.keys(transaction).slice(4)]
\* for the header, and the same with Object.values for the line: one field per key
lineKeys(urls) ==
    << <<"date">>, <<"amount">>, <<"category">>, <<"accountId">> >>
    \o SubSeq(transactionKeys(urls), 5, Len(transactionKeys(urls)))

FieldsInit ==
    /\ receiptInput \in
          UNION {[1..n -> [1..Len(receiptUrlFields) -> ReceiptUrls]] :
                    n \in 1..MaxReceiptTransactions}
    /\ fPc = "loop"
    /\ rowIndex = 1
    /\ csvHeader = <<>>
    /\ csvRows = <<>>

FieldsIdle ==
    /\ receiptInput = <<>>
    /\ fPc = "off"
    /\ rowIndex = 1
    /\ csvHeader = <<>>
    /\ csvRows = <<>>

\* One turn of the loop of processTransactions for a transaction that is not
\* in the store: its receipts are extracted, it is classified, the header is
\* written if processed.csv does not exist, and its line is appended.
PersistTransaction ==
    /\ fPc = "loop"
    /\ rowIndex <= Len(receiptInput)
    /\ csvHeader' = IF csvHeader = <<>> THEN lineKeys(receiptInput[rowIndex]) ELSE csvHeader
    /\ csvRows' = Append(csvRows, lineKeys(receiptInput[rowIndex]))
    /\ rowIndex' = rowIndex + 1
    /\ UNCHANGED <<receiptInput, fPc>>
    /\ UNCHANGED <<pipelineVars, keyVars, resolverVars, receiptVars, statementVars, limiterVars,
                   importVars, exportVars>>

\* a classifier call or a write throws, or an extraction ends the process
TransactionFails ==
    /\ fPc = "loop"
    /\ rowIndex <= Len(receiptInput)
    /\ fPc' = "failed"
    /\ UNCHANGED <<receiptInput, rowIndex, csvHeader, csvRows>>
    /\ UNCHANGED <<pipelineVars, keyVars, resolverVars, receiptVars, statementVars, limiterVars,
                   importVars, exportVars>>

\* the loop is over
ReturnTransactionsWithReceipts ==
    /\ fPc = "loop"
    /\ rowIndex > Len(receiptInput)
    /\ fPc' = "done"
    /\ UNCHANGED <<receiptInput, rowIndex, csvHeader, csvRows>>
    /\ UNCHANGED <<pipelineVars, keyVars, resolverVars, receiptVars, statementVars, limiterVars,
                   importVars, exportVars>>

FieldsNext ==
    \/ PersistTransaction
    \/ TransactionFails
    \/ ReturnTransactionsWithReceipts

-----------------------------------------------------------------------------
(* hcb_json_to_csv: getAllPaths, getValueByPath, escapeCsvValue and         *)
(* convertJsonToCsv. A string is the sequence of its characters.           *)

\* how many transactions the organization of the input file has
MaxExportTransactions == 2

\* JSON values: strings, arrays and objects; an object is the sequence of its
\* properties in insertion order
JsonValue(type, str, items, fields) ==
    [type |-> type, str |-> str, items |-> items, fields |-> fields]

JsonString(str) == JsonValue("string", str, <<>>, <<>>)

JsonArray(items) == JsonValue("array", <<>>, items, <<>>)

JsonObject(fields) == JsonValue("object", <<>>, <<>>, fields)

\* JavaScript undefined where a JSON value is expected
JsonUndefined == JsonValue("undefined", <<>>, <<>>, <<>>)

Property(key, value) == [key |-> key, value |-> value]

\* key in obj
hasKey(obj, key) ==
    obj.type = "object" /\ \E k \in 1..Len(obj.fields) : obj.fields[k].key = key

\* obj[key]: undefined for a key the object does not have and for the keys
\* used here on a string or an array
getKey(obj, key) ==
    IF hasKey(obj, key)
    THEN obj.fields[CHOOSE k \in 1..Len(obj.fields) : obj.fields[k].key = key].value
    ELSE JsonUndefined

\* the characters of the paths in the order of their UTF-16 code units
CodeUnits ==
    << ",", ".", "0", "1", "2", "3", "4", "5", "6", "7", "8", "9", "_",
       "a", "b", "c", "d", "e", "f", "g", "h", "i", "j", "k", "l", "m",
       "n", "o", "p", "q", "r", "s", "t", "u", "v", "w", "x", "y", "z" >>

codeUnit(char) == CHOOSE k \in 1..Len(CodeUnits) : CodeUnits[k] = char

\* \d
isDigit(char) == codeUnit(char) \in 3..12

\* parentPath ? `${parentPath}.${key}` : key
newPathOf(parentPath, key) ==
    IF parentPath # <<>> THEN parentPath \o <<".">> \o key ELSE key

\* `${newPath}${i + 1}` for the item at position k (from 1) of an array
arrayItemPrefix(newPath, k) == newPath \o <<CodeUnits[k + 3]>>

\* const maxArrayItems = 5
maxArrayItems == 5

Min(a, b) == IF a <= b THEN a ELSE b

\* getAllPaths(obj, parentPath): the Set of the paths of an object
RECURSIVE getAllPaths(_, _)
getAllPaths(obj, parentPath) ==
    UNION { LET key == obj.fields[k].key
                value == obj.fields[k].value
                newPath == newPathOf(parentPath, key)
            IN  IF value.type = "array"
                THEN {newPath} \cup
                     (IF Len(value.items) > 0 /\ value.items[1].type = "object"
                      THEN UNION { getAllPaths(value.items[n], arrayItemPrefix(newPath, n)) :
                                      n \in 1..Min(maxArrayItems, Len(value.items)) }
                      ELSE {})
                ELSE IF value.type = "object"
                THEN getAllPaths(value, newPath)
                ELSE {newPath}
          : k \in 1..Len(obj.fields) }

\* path.match(/^(.+?)(\d+)(.*)/): the position of the first digit that is not
\* the first character of the path, 0 when the path does not match
matchStart(path) ==
    IF \E n \in 2..Len(path) : isDigit(path[n])
    THEN CHOOSE n \in 2..Len(path) :
             isDigit(path[n]) /\ \A m \in 2..(n - 1) : ~isDigit(path[m])
    ELSE 0

\* the position of the last digit of the run of digits that begins at start
matchEnd(path, start) ==
    CHOOSE n \in start..Len(path) :
        /\ \A m \in start..n : isDigit(path[m])
        /\ n = Len(path) \/ ~isDigit(path[n + 1])

\* parseInt(indexStr) of a string of digits
RECURSIVE parseIndex(_)
parseIndex(indexStr) ==
    IF indexStr = <<>> THEN 0
    ELSE 10 * parseIndex(SubSeq(indexStr, 1, Len(indexStr) - 1))
         + (codeUnit(indexStr[Len(indexStr)]) - 3)

\* path.split('.')
RECURSIVE splitDot(_)
splitDot(path) ==
    IF \E n \in 1..Len(path) : path[n] = "."
    THEN LET n == CHOOSE n \in 1..Len(path) :
                      path[n] = "." /\ \A m \in 1..(n - 1) : path[m] # "."
         IN  <<SubSeq(path, 1, n - 1)>> \o splitDot(SubSeq(path, n + 1, Len(path)))
    ELSE <<path>>

\* !value for the values used here: undefined and the empty string
falsy(value) ==
    value.type = "undefined" \/ (value.type = "string" /\ value.str = <<>>)

\* typeof value === 'object' && Object.keys(value).length > 0
nonEmptyObject(value) ==
    \/ value.type = "object" /\ Len(value.fields) > 0
    \/ value.type = "array" /\ Len(value.items) > 0

\* arrayPath.split('.').reduce((current, key) =>
\*     current && current[key] !== undefined ? current[key] : undefined, obj)
RECURSIVE reduceArrayPath(_, _)
reduceArrayPath(current, keys) ==
    IF keys = <<>> THEN current
    ELSE reduceArrayPath(IF falsy(current) THEN JsonUndefined ELSE getKey(current, Head(keys)),
                         Tail(keys))

\* current.map(item => ...).filter(Boolean).join(';') for an array
RECURSIVE joinItems(_)
joinItems(items) ==
    IF items = <<>> THEN <<>>
    ELSE LET first == IF nonEmptyObject(Head(items)) THEN <<>> ELSE Head(items).str
             others == joinItems(Tail(items))
         IN  IF first = <<>> THEN others
             ELSE IF others = <<>> THEN first
             ELSE first \o <<";">> \o others

\* path.split('.').reduce((current, key) => { ... }, obj) of the path that
\* does not match
RECURSIVE reducePath(_, _)
reducePath(current, keys) ==
    IF keys = <<>> THEN current
    ELSE reducePath(
             IF current.type = "undefined" THEN JsonString(<<>>)
             ELSE IF current.type = "array" THEN JsonString(joinItems(current.items))
             ELSE IF current.type = "object" /\ ~hasKey(current, Head(keys)) THEN JsonString(<<>>)
             ELSE getKey(current, Head(keys)),
             Tail(keys))

\* getValueByPath(obj, path)
RECURSIVE getValueByPath(_, _)
getValueByPath(obj, path) ==
    LET start == matchStart(path)
    IN  IF start # 0
        THEN LET end == matchEnd(path, start)
                 arrayPath == SubSeq(path, 1, start - 1)
                 index == parseIndex(SubSeq(path, start, end)) - 1
                 rest == SubSeq(path, end + 1, Len(path))
                 array == reduceArrayPath(obj, splitDot(arrayPath))
             IN  IF falsy(array) \/ array.type # "array" THEN JsonString(<<>>)
                 ELSE LET item == IF index + 1 \in 1..Len(array.items)
                                  THEN array.items[index + 1] ELSE JsonUndefined
                      IN  IF falsy(item) THEN JsonString(<<>>)
                          ELSE IF rest = <<>> /\ nonEmptyObject(item) THEN JsonString(<<>>)
                          ELSE IF rest # <<>> THEN getValueByPath(item, Tail(rest))
                          ELSE item
        ELSE reducePath(obj, splitDot(path))

\* escapeCsvValue(value)
escapeCsvValue(value) ==
    IF value.type = "undefined" THEN <<>>
    ELSE IF value.type = "array"
    THEN LET joined == joinItems([k \in 1..Len(value.items) |->
                           IF nonEmptyObject(value.items[k]) THEN value.items[k]
                           ELSE JsonString(doubleQuotes(value.items[k].str))])
         IN  IF joined # <<>> THEN <<QUOTE>> \o joined \o <<QUOTE>> ELSE <<>>
    ELSE IF value.type = "object" THEN <<>>
    ELSE IF includes(value.str, ",") \/ includes(value.str, QUOTE)
            \/ includes(value.str, "\n") \/ includes(value.str, "\r")
    THEN <<QUOTE>> \o doubleQuotes(value.str) \o <<QUOTE>>
    ELSE value.str

\* fields.join(',')
RECURSIVE joinComma(_)
joinComma(fields) ==
    IF fields = <<>> THEN <<>>
    ELSE IF Len(fields) = 1 THEN fields[1]
    ELSE fields[1] \o <<",">> \o joinComma(Tail(fields))

\* a < b for two strings as Array.prototype.sort compares them, by code units
RECURSIVE sortsBefore(_, _)
sortsBefore(a, b) ==
    IF a = <<>> THEN b # <<>>
    ELSE IF b = <<>> THEN FALSE
    ELSE IF Head(a) # Head(b) THEN codeUnit(Head(a)) < codeUnit(Head(b))
    ELSE sortsBefore(Tail(a), Tail(b))

\* Array.from(paths).sort()
RECURSIVE sortPaths(_)
sortPaths(paths) ==
    IF paths = {} THEN <<>>
    ELSE LET first == CHOOSE p \in paths : \A q \in paths \ {p} : sortsBefore(p, q)
         IN  <<first>> \o sortPaths(paths \ {first})

orgPaths ==
    << <<"o", "r", "g", "_", "i", "d">>,
       <<"o", "r", "g", "_", "p", "a", "r", "e", "n", "t", "_", "i", "d">>,
       <<"o", "r", "g", "_", "n", "a", "m", "e">>,
       <<"o", "r", "g", "_", "s", "l", "u", "g">> >>

\* { org_id: org.id, org_parent_id: org.parent || '', org_name: org.name,
\*   org_slug: org.slug, ...rest } for the one organization of the file
withOrganization(transaction) ==
    JsonObject(<< Property(orgPaths[1], JsonString(<<"o", "1">>)),
                  Property(orgPaths[2], JsonString(<<>>)),
                  Property(orgPaths[3], JsonString(<<"n">>)),
                  Property(orgPaths[4], JsonString(<<"s">>)) >>
               \o transaction.fields)

\* The transactions all_transactions.json can hold: a value with a comma, a
\* key with a digit, an array of objects, a key with a digit in a nested
\* object, and an array of strings.
ExportTransactions ==
    { JsonObject(<< Property(<<"i", "d">>, JsonString(<<"a">>)),
                    Property(<<"m", "e", "m", "o">>, JsonString(<<"m", ",", "n">>)) >>),
      JsonObject(<< Property(<<"i", "d">>, JsonString(<<"b">>)),
                    Property(<<"l", "a", "s", "t", "4">>, JsonString(<<"4", "2">>)) >>),
      JsonObject(<< Property(<<"i", "d">>, JsonString(<<"c">>)),
                    Property(<<"t", "a", "g", "s">>,
                             JsonArray(<< JsonObject(<< Property(<<"l", "a", "b", "e", "l">>,
                                                                 JsonString(<<"x">>)) >>) >>)) >>),
      JsonObject(<< Property(<<"i", "d">>, JsonString(<<"d">>)),
                    Property(<<"c", "a", "r", "d">>,
                             JsonObject(<< Property(<<"l", "a", "s", "t", "4">>,
                                                    JsonString(<<"4", "2">>)) >>)) >>),
      JsonObject(<< Property(<<"i", "d">>, JsonString(<<"e">>)),
                    Property(<<"t", "a", "g", "s">>,
                             JsonArray(<< JsonString(<<"x">>), JsonString(<<"y">>) >>)) >>) }

NoExport == [exists |-> FALSE, lines |-> <<>>]

ExportInit ==
    /\ jsonData \in UNION {[1..n -> ExportTransactions] : n \in 0..MaxExportTransactions}
    /\ xPc = "read"
    /\ allTransactions = <<>>
    /\ xIndex = 1
    /\ pathSet = {}
    /\ orderedPaths = <<>>
    /\ exportRows = <<>>
    /\ exportFile = NoExport

ExportIdle ==
    /\ jsonData = <<>>
    /\ xPc = "off"
    /\ allTransactions = <<>>
    /\ xIndex = 1
    /\ pathSet = {}
    /\ orderedPaths = <<>>
    /\ exportRows = <<>>
    /\ exportFile = NoExport

\* the file is read and parsed, the transactions of the organization are
\* collected; without transactions convertJsonToCsv returns
CollectTransactions ==
    /\ xPc = "read"
    /\ allTransactions' = [k \in 1..Len(jsonData) |-> withOrganization(jsonData[k])]
    /\ xPc' = IF Len(jsonData) = 0 THEN "none" ELSE "paths"
    /\ UNCHANGED <<jsonData, xIndex, pathSet, orderedPaths, exportRows, exportFile>>
    /\ UNCHANGED <<pipelineVars, keyVars, resolverVars, receiptVars, statementVars,
                   limiterVars, importVars, fieldsVars>>

\* one turn of allTransactions.forEach(transaction =>
\*     getAllPaths(transaction).forEach(path => paths.add(path)))
CollectPaths ==
    /\ xPc = "paths"
    /\ xIndex <= Len(allTransactions)
    /\ pathSet' = pathSet \cup getAllPaths(allTransactions[xIndex], <<>>)
    /\ xIndex' = xIndex + 1
    /\ UNCHANGED <<jsonData, xPc, allTransactions, orderedPaths, exportRows, exportFile>>
    /\ UNCHANGED <<pipelineVars, keyVars, resolverVars, receiptVars, statementVars,
                   limiterVars, importVars, fieldsVars>>

\* const orderedPaths = ['org_id', 'org_parent_id', 'org_name', 'org_slug',
\*     ...Array.from(paths).filter(...).sort()]
OrderPaths ==
    /\ xPc = "paths"
    /\ xIndex > Len(allTransactions)
    /\ orderedPaths' =
          orgPaths \o sortPaths(pathSet \ {orgPaths[k] : k \in 1..Len(orgPaths)})
    /\ xPc' = "rows"
    /\ xIndex' = 1
    /\ UNCHANGED <<jsonData, allTransactions, pathSet, exportRows, exportFile>>
    /\ UNCHANGED <<pipelineVars, keyVars, resolverVars, receiptVars, statementVars,
                   limiterVars, importVars, fieldsVars>>

\* one turn of allTransactions.map(transaction =>
\*     orderedPaths.map(path => escapeCsvValue(getValueByPath(transaction, path))).join(','))
BuildRow ==
    /\ xPc = "rows"
    /\ xIndex <= Len(allTransactions)
    /\ exportRows' =
          Append(exportRows,
                 joinComma([k \in 1..Len(orderedPaths) |->
                     escapeCsvValue(getValueByPath(allTransactions[xIndex], orderedPaths[k]))]))
    /\ xIndex' = xIndex + 1
    /\ UNCHANGED <<jsonData, xPc, allTransactions, pathSet, orderedPaths, exportFile>>
    /\ UNCHANGED <<pipelineVars, keyVars, resolverVars, receiptVars, statementVars,
                   limiterVars, importVars, fieldsVars>>

\* csvContent = [csvHeader, ...csvRows].join('\n'); Bun.write(outputFile, csvContent)
WriteCsv ==
    /\ xPc = "rows"
    /\ xIndex > Len(allTransactions)
    /\ exportFile' =
          [ exists |-> TRUE,
            lines |-> << joinComma([k \in 1..Len(orderedPaths) |->
                                       escapeCsvValue(JsonString(orderedPaths[k]))]) >>
                      \o exportRows ]
    /\ xPc' = "written"
    /\ UNCHANGED <<jsonData, allTransactions, xIndex, pathSet, orderedPaths, exportRows>>
    /\ UNCHANGED <<pipelineVars, keyVars, resolverVars, receiptVars, statementVars,
                   limiterVars, importVars, fieldsVars>>

ExportNext ==
    \/ CollectTransactions
    \/ CollectPaths
    \/ OrderPaths
    \/ BuildRow
    \/ WriteCsv

-----------------------------------------------------------------------------
(* Specifications                                                          *)

Init == PipelineInit /\ KeyIdle /\ ResolverIdle /\ ReceiptIdle /\ StatementIdle /\ LimiterIdle /\ ImportIdle /\ FieldsIdle /\ ExportIdle

Spec == Init /\ [][Next]_vars

InitKey == KeyInit /\ PipelineIdle /\ ResolverIdle /\ ReceiptIdle /\ StatementIdle /\ LimiterIdle /\ ImportIdle /\ FieldsIdle /\ ExportIdle

SpecKey == InitKey /\ [][KeyNext]_vars

InitResolver == ResolverInit /\ PipelineIdle /\ KeyIdle /\ ReceiptIdle /\ StatementIdle /\ LimiterIdle /\ ImportIdle /\ FieldsIdle /\ ExportIdle

SpecResolver == InitResolver /\ [][ResolverNext]_vars

InitReceipt == ReceiptInit /\ PipelineIdle /\ KeyIdle /\ ResolverIdle /\ StatementIdle /\ LimiterIdle /\ ImportIdle /\ FieldsIdle /\ ExportIdle

SpecReceipt == InitReceipt /\ [][ReceiptNext]_vars

InitStatement ==
    /\ StatementInit /\ PipelineIdle /\ KeyIdle /\ ResolverIdle /\ ReceiptIdle
    /\ LimiterIdle /\ ImportIdle /\ FieldsIdle /\ ExportIdle

Idle ==
    /\ PipelineIdle /\ KeyIdle /\ ResolverIdle /\ ReceiptIdle /\ StatementIdle

InitLimiter == LimiterInit /\ Idle /\ ImportIdle /\ FieldsIdle /\ ExportIdle

SpecLimiter == InitLimiter /\ [][LimiterNext]_vars

\* Time goes on, and a timer that is due fires.
FairSpecLimiter == SpecLimiter /\ WF_vars(Tick) /\ WF_vars(Wake)

InitImport == ImportInit /\ Idle /\ LimiterIdle /\ FieldsIdle /\ ExportIdle

SpecImport == InitImport /\ [][ImportNext]_vars

InitFields == FieldsInit /\ Idle /\ LimiterIdle /\ ImportIdle /\ ExportIdle

InitExport == ExportInit /\ Idle /\ LimiterIdle /\ ImportIdle /\ FieldsIdle

SpecExport == InitExport /\ [][ExportNext]_vars

SpecFields == InitFields /\ [][FieldsNext]_vars

SpecStatement == InitStatement /\ [][StatementNext]_vars

StatementTwiceNext ==
    \/ LoadStore
    \/ BucketRecord
    \/ AddHeaderRows
    \/ AddIncomeSection
    \/ AddExpensesSection
    \/ AddNetIncome
    \/ WriteWorkbook
    \/ WriteWorkbookFails
    \/ RunAgain

SpecStatementTwice == InitStatement /\ [][StatementTwiceNext]_vars

-----------------------------------------------------------------------------
(* Properties                                                              *)

\* processed.csv as a whole
StoreFile == [exists |-> storeExists, header |-> header, rows |-> rows]

\* C1: once a run of processTransactions over the input has completed, a
\* further run over the same input and store appends no line: the store file
\* stays identical to what the completed run left.
C1_SecondRunAppendsNothing == completed => StoreFile = doneStore

\* C2: over any sequence of runs, interrupted anywhere and restarted, no
\* idempotency key has more than one line in the store.
C2_OneLinePerKey ==
    \A j, k \in 1..Len(rows) :
        j < k => keyOfStoreRecord(variant, header, rows[j])
                     # keyOfStoreRecord(variant, header, rows[k])

\* C3: when the first run, on a store that was absent, completes without a
\* fault, every transaction of the input has its own line in the store, also
\* when two transactions of the input yield the same key.
C3_NoTransactionLost ==
    (run = 1 /\ pc = "done") =>
        /\ appendedFor = 1..Len(transactions)
        /\ Len(rows) = Len(transactions)

\* two characters that are the same letter in either case
SameLetter(c, d) == c = d \/ {c, d} = {"a", "A"}

SameLetters(x, y) == Len(x) = Len(y) /\ \A k \in 1..Len(x) : SameLetter(x[k], y[k])

\* a string without any of its whitespace
WithoutWhitespace(str) == SelectSeq(str, LAMBDA c : c # " ")

\* a string without its trailing whitespace
WithoutTrailingWhitespace(str) ==
    LET kept == {k \in 1..Len(str) : str[k] # " "}
    IN  IF kept = {} THEN <<>>
        ELSE SubSeq(str, 1, CHOOSE k \in kept : \A m \in kept : m <= k)

SameDateAndAmount == kT1.date = kT2.date /\ kT1.amount = kT2.amount

\* C4 as claimed: two transactions with the same date and amount whose
\* descriptions differ only in letter case or in whitespace (leading, trailing
\* or internal) get the same key.
C4_SameKeyAnyWhitespace ==
    ( /\ kPc = "keyed"
      /\ SameDateAndAmount
      /\ SameLetters(WithoutWhitespace(kT1.description),
                     WithoutWhitespace(kT2.description)) )
    => kKey1 = kKey2

\* C4 as amended: two transactions with the same date and amount whose
\* non-empty descriptions differ only in letter case or in trailing whitespace
\* get the same key.
C4_SameKeyTrailingWhitespace ==
    ( /\ kPc = "keyed"
      /\ SameDateAndAmount
      /\ kT1.description # <<>>
      /\ kT2.description # <<>>
      /\ SameLetters(WithoutTrailingWhitespace(kT1.description),
                     WithoutTrailingWhitespace(kT2.description)) )
    => kKey1 = kKey2

C4_Witness ==
    /\ kPc = "keyed"
    /\ SameDateAndAmount
    /\ kT1.description = <<"a">>
    /\ kT2.description = <<"A", " ">>
    /\ kKey1 = kKey2

\* C5: when the first or the second classifier call fails, the run has
\* stopped: no line was appended for the transaction, its key is not in the
\* processed Set, and nothing more happens until another run is started.
C5_FailFast ==
    /\ [](error = "OracleFault" =>
            /\ pc = "failed"
            /\ i \notin appendedFor
            /\ keyOfTransaction(variant, transactions[i]) \notin processedTransactions)
    /\ [][error = "OracleFault" => run' = run + 1]_vars

C5_Witness ==
    /\ error = "OracleFault"
    /\ calls = 2
    /\ i = 1
    /\ Len(transactions) = 2
    /\ rows = <<>>

\* C6: for a transaction whose classifier response carries n >= 1 questions,
\* exactly one question, the first of the list, is presented to the human, at
\* most once; with n = 0 no question is presented.
C6_OneQuestion ==
    /\ Len(presented) <= 1
    /\ pc \in {"ask", "reclassify", "persist", "appended"} =>
         presented = IF Len(object.questions) >= 1 THEN <<object.questions[1]>> ELSE <<>>
    /\ pc \in {"ask", "reclassify"} => question = object.questions[1]

C6_Witness ==
    /\ pc = "reclassify"
    /\ Len(object.questions) >= 2
    /\ presented = <<object.questions[1]>>

\* the accountId field of the last line of the store, as it is read back
LastAccountId == parseCsvField(rows[Len(rows)][4])

\* the accountName field of a line of the store, as it is read back
AccountNameOf(line) == parseCsvField(line[Len(line)])

\* C7: when a question was asked, the account id persisted for the
\* transaction is the id of the second classifier call; when none was asked,
\* it is the id of the first call.
C7_FinalAccountId ==
    pc = "appended" =>
        LastAccountId = IF Len(object.questions) > 0
                        THEN <<categorization.accountId>>
                        ELSE <<object.accountId>>

C7_Witness ==
    /\ pc = "appended"
    /\ Len(object.questions) > 0
    /\ categorization.accountId # object.accountId
    /\ LastAccountId = <<categorization.accountId>>

\* C8: a transaction is skipped, or classified and persisted, or asked about,
\* classified and persisted: its line is appended only once the final account
\* id is known (after the second call when a question was asked), and the
\* classifier is called at most twice for it.
C8_TransactionPaths ==
    [][ /\ pc = "loop" => pc' \in {"loop", "classify", "done", "idle"}
        /\ pc = "classify" =>
             /\ pc' \in {"ask", "persist", "failed", "idle"}
             /\ pc' = "ask" => Len(object'.questions) > 0
             /\ pc' = "persist" => Len(object'.questions) = 0
        /\ pc = "ask" => pc' \in {"reclassify", "idle"}
        /\ pc = "reclassify" => pc' \in {"persist", "failed", "idle"}
        /\ pc = "persist" => pc' \in {"persist", "appended", "failed", "idle"}
        /\ pc = "appended" => pc' \in {"loop", "idle"}
        /\ rows' # rows =>
             /\ pc = "persist" /\ pc' = "appended"
             /\ rows' = Append(rows, rows'[Len(rows')])
             /\ calls = IF Len(object.questions) > 0 THEN 2 ELSE 1
        /\ calls' <= 2
      ]_vars

C8_Witness ==
    /\ pc = "appended"
    /\ calls = 2
    /\ Len(object.questions) > 0

\* C9: the accountName on the line just appended for a transaction is the
\* name the chart of accounts gives for the final account id; the name the
\* classifier returned is not what is stored.
C9_ResolvedNamePersisted ==
    pc = "appended" =>
        LET resolved == getFullAccountName(accountId)
        IN  /\ AccountNameOf(rows[Len(rows)]) = resolved
            /\ <<accountName>> # resolved => AccountNameOf(rows[Len(rows)]) # <<accountName>>

C9_Witness ==
    /\ pc = "appended"
    /\ accountId = "5110"
    /\ accountName = "Payroll"
    /\ AccountNameOf(rows[Len(rows)]) = <<"Salaries and Wages">>

\* the account whose subAccounts hold the account with the given id
HasParent(id) == \E p \in ACCOUNTS : \E k \in 1..Len(p.subAccounts) : p.subAccounts[k] = id
ParentOf(id) == CHOOSE p \in ACCOUNTS : \E k \in 1..Len(p.subAccounts) : p.subAccounts[k] = id

\* the names of the ancestors of an account from the root down to the account
RECURSIVE AncestorNames(_)
AncestorNames(id) ==
    IF HasParent(id) THEN Append(AncestorNames(ParentOf(id).id), Account(id).name)
    ELSE <<Account(id).name>>

\* C10: for every node of the chart of accounts, the full account name
\* computed for its id is the names of its ancestors from the root down to
\* the node itself, joined with ' > '.
C10_FullPathName ==
    (rPc = "done" /\ rAccountId \in AccountIds) =>
        rResult = join(AncestorNames(rAccountId))

\* C11: resolving an account id that the chart of accounts does not have
\* signals not-found: getFullAccountName does not return normally with the
\* default, empty, name for it.
C11_AbsentIdSignalsNotFound ==
    rAccountId \notin AccountIds => ~(rPc = "done" /\ rResult = <<>>)

\* C12: whenever the extraction for a receipt URL field fails (download,
\* conversion, the model call, no tool called within the attempts, or the
\* cache file), null is recorded for the field and the process goes on with
\* the same transaction: it is neither ended nor left waiting.
C12_ExtractionFailureIsSwallowed ==
    failure # "none" =>
        /\ receiptPc \notin {"crashed", "hung"}
        /\ \E k \in 1..Len(receiptUrls) : extractedContents[k] = Null

\* C13: aiExtractReceiptDetails calls the model at most maxAttempts times for
\* a receipt, never again once a tool was called, and when no attempt called a
\* tool the promise it returned is settled.
C13_BoundedAttemptsAndSettles ==
    /\ modelCalls <= maxAttempts
    /\ callsAfterTool = 0
    /\ failure = "noTool" => promise \in {"resolved", "rejected"}

\* C14: once getReceiptData has returned a value for a receipt key, every
\* later call with that key returns the same value, and neither the download
\* and conversion nor the model is invoked for that key again.
C14_CacheHitShortCircuits ==
    /\ lateWork = {}
    /\ \A k \in 1..Len(returned) :
         \A a, b \in 1..Len(returned[k]) : returned[k][a] = returned[k][b]

C14_Witness ==
    /\ receiptRuns = 2
    /\ \E k \in 1..Len(returned) :
         /\ Len(returned[k]) = 2
         /\ extractedContents[k] = returned[k][1]
         /\ promise = "none"

\* the calendar month, as a month key, of the date a record of the store carries
DatedMonth(record) ==
    LET c == calendar[record.date[1]]
    IN  [year |-> c.year, month |-> c.month + 1]

\* the account is the root or lies in the subtree of the root
RECURSIVE IsBelow(_, _)
IsBelow(id, root) == id = root \/ (HasParent(id) /\ IsBelow(ParentOf(id).id, root))

\* the accounts in the subtree of each account of the chart
SubtreeOf == [root \in AccountIds |-> {id \in AccountIds : IsBelow(id, root)}]

\* the accounts of the chart that have no subAccounts
Leaves == {n.id : n \in {m \in ACCOUNTS : m.subAccounts = <<>>}}

\* the sum of the amounts of the records of the store at the given positions
RECURSIVE SumOfAmounts(_, _)
SumOfAmounts(store, positions) ==
    IF positions = {} THEN 0
    ELSE LET k == CHOOSE k \in positions : TRUE
         IN  parseFloat(store[k].amount).num + SumOfAmounts(store, positions \ {k})

\* the rows of the workbook that are the summary row of an account
SummaryRows ==
    {r \in 1..Len(workbook.rows) :
        ~workbook.rows[r].isTransaction /\ workbook.rows[r].accountId \in AccountIds}

\* C15: for every account node and every month column M, the value of the
\* node's summary row for M is the sum of the amounts of all transactions
\* dated in M that are assigned to leaf accounts in the subtree of the node.
C15_SummaryIsSumOfLeafTransactions ==
    workbook.written =>
        \A r \in SummaryRows : \A c \in 1..Len(sortedMonthsArray) :
            workbook.rows[r].values[c].hundredths =
                SumOfAmounts(storeRecords,
                    {k \in 1..Len(storeRecords) :
                        /\ DatedMonth(storeRecords[k]) = sortedMonthsArray[c]
                        /\ storeRecords[k].accountId \in Leaves
                        /\ storeRecords[k].accountId \in
                               SubtreeOf[workbook.rows[r].accountId]})

\* the row of the workbook that belongs to no account and has the given label
RowLabelled(text) ==
    CHOOSE r \in 1..Len(workbook.rows) :
        workbook.rows[r].label.text = text /\ workbook.rows[r].accountId = ""

\* the summary row of the account with the given id
SummaryRowOf(id) ==
    CHOOSE r \in 1..Len(workbook.rows) :
        ~workbook.rows[r].isTransaction /\ workbook.rows[r].accountId = id

\* C16: in every month column the value of the Net Income row is the value of
\* the Total Income row minus the value of the Total Expenses row, and the
\* Total Income and Total Expenses rows carry the values of the summary rows
\* of the Income and Expenses root accounts.
C16_NetIsIncomeMinusExpenses ==
    workbook.written =>
        LET net == workbook.rows[RowLabelled("Net Income")].values
            income == workbook.rows[RowLabelled("Total Income")].values
            expenses == workbook.rows[RowLabelled("Total Expenses")].values
        IN  /\ income = workbook.rows[SummaryRowOf("4000")].values
            /\ expenses = workbook.rows[SummaryRowOf("5000")].values
            /\ Len(net) = Len(sortedMonthsArray)
            /\ \A c \in 1..Len(sortedMonthsArray) :
                 /\ net[c].type = "number"
                 /\ net[c].hundredths = income[c].hundredths - expenses[c].hundredths

\* a workbook with a month in which there is income and there are expenses
C16_Witness ==
    /\ workbook.written
    /\ \E c \in 1..Len(sortedMonthsArray) :
         /\ workbook.rows[RowLabelled("Total Income")].values[c].hundredths = 1000
         /\ workbook.rows[RowLabelled("Total Expenses")].values[c].hundredths = -250
         /\ workbook.rows[RowLabelled("Net Income")].values[c].hundredths = 1250

\* the calendar months in which a record of the store is dated
DatedMonths == {DatedMonth(storeRecords[k]) : k \in 1..Len(storeRecords)}

\* the month a column of the workbook is headed with
ColumnMonth(c) ==
    CHOOSE key \in DatedMonths \cup {sortedMonthsArray[j] : j \in 1..Len(sortedMonthsArray)} :
        workbook.rows[1].values[c].text = monthHeader(key)

\* C17: the month columns of the grid are exactly the distinct calendar months
\* in which at least one input record is dated, each appearing once, in
\* ascending chronological order; a month with no record has no column.
C17_ColumnsAreTheDatedMonths ==
    workbook.written =>
        LET columns == 1..Len(workbook.rows[1].values)
        IN  /\ {ColumnMonth(c) : c \in columns} = DatedMonths
            /\ \A b, c \in columns :
                 b < c =>
                    \/ ColumnMonth(b).year < ColumnMonth(c).year
                    \/ /\ ColumnMonth(b).year = ColumnMonth(c).year
                       /\ ColumnMonth(b).month < ColumnMonth(c).month

\* the store has a record whose date does not parse
HasUnparseableDate ==
    \E k \in 1..Len(storeRecords) : dateOf(storeRecords[k].date) = InvalidDate

\* C18: if the date of any record given to generateStatementOfActivity cannot
\* be parsed, the aggregation aborts with a fault and no workbook is written;
\* the record is never skipped and never bucketed under a placeholder month.
C18_UnparseableDateAborts ==
    HasUnparseableDate =>
        /\ ~workbook.written
        /\ sPc \in {"load", "bucket", "failed"}
        /\ sPc = "failed" => sError = "RangeError"
        /\ \A k \in 1..Len(storeRecords) :
             dateOf(storeRecords[k].date) = InvalidDate => recordIndex <= k
        /\ \A id \in DOMAIN transactionsByAccount :
             \A j \in 1..Len(transactionsByAccount[id]) :
                transactionsByAccount[id][j].monthKey # NaNMonthKey
        /\ \A x \in DOMAIN monthlyTotals : x[1] # NaNMonthKey

\* the aggregation has aborted at a record without a date, after it had
\* bucketed a record before it
C18_Witness ==
    /\ sPc = "failed"
    /\ sError = "RangeError"
    /\ recordIndex > 1
    /\ dateOf(storeRecords[recordIndex].date) = InvalidDate
    /\ transactionsByAccount # <<>>
    /\ ~workbook.written

\* the records of the store assigned to an account, in store order
RecordsOf(id) == SelectSeq(storeRecords, LAMBDA record : record.accountId = id)

\* the rows of the workbook that belong to the account or to one below it
RowsBelow(id) ==
    {r \in 1..Len(workbook.rows) :
        /\ workbook.rows[r].accountId \in AccountIds
        /\ workbook.rows[r].accountId \in SubtreeOf[id]}

\* the transaction detail rows of an account
DetailRowsOf(id) ==
    {r \in 1..Len(workbook.rows) :
        workbook.rows[r].isTransaction /\ workbook.rows[r].accountId = id}

\* C19: within each section the rows are in pre-order over the chart: the
\* summary row of a node comes first, then for a leaf its transaction detail
\* rows in store order, then the rows of its children in chart order; every
\* row of a descendant lies after the summary row of each of its ancestors and
\* before the summary row of the next sibling.
C19_RowsInPreOrder ==
    workbook.written =>
        /\ \A r \in RowsBelow("4000") :
             RowLabelled("INCOME") < r /\ r < RowLabelled("Total Income")
        /\ \A r \in RowsBelow("5000") :
             RowLabelled("EXPENSES") < r /\ r < RowLabelled("Total Expenses")
        /\ \A id \in AccountIds :
             LET first == SummaryRowOf(id)
                 details == IF id \in Leaves THEN RecordsOf(id) ELSE <<>>
                 children == Account(id).subAccounts
             IN  /\ first \in SummaryRows /\ workbook.rows[first].accountId = id
                 /\ \A r \in SummaryRows : workbook.rows[r].accountId = id => r = first
                 /\ \A r \in RowsBelow(id) : first <= r
                 /\ DetailRowsOf(id) = (first + 1)..(first + Len(details))
                 /\ \A j \in 1..Len(details) :
                      /\ workbook.rows[first + j].description = details[j].description
                      /\ workbook.rows[first + j].date = <<details[j].date[1]>>
                 /\ children # <<>> => SummaryRowOf(children[1]) = first + Len(details) + 1
                 /\ \A a, b \in 1..Len(children) :
                      a < b => \A r \in RowsBelow(children[a]) : r < SummaryRowOf(children[b])

\* a workbook in which a leaf has two detail rows and a sibling after it has
\* one
C19_Witness ==
    /\ workbook.written
    /\ Len(RecordsOf("5410")) = 2
    /\ RecordsOf("5410")[1] # RecordsOf("5410")[2]
    /\ Len(RecordsOf("5430")) = 1
    /\ Cardinality(DetailRowsOf("5410")) = 2
    /\ Cardinality(DetailRowsOf("5430")) = 1

\* the month columns in which a row of the workbook has a value
FilledColumns(r) ==
    {c \in 1..Len(workbook.rows[r].values) : workbook.rows[r].values[c] # TextCell(<<>>)}

\* C20: every transaction detail row has a value in exactly one month column,
\* the column of the month of its own date, equal to the amount of the
\* transaction, and is hidden; no summary, header or total row is hidden.
C20_DetailRowInTheMonthOfItsDate ==
    workbook.written =>
        \A r \in 1..Len(workbook.rows) :
            IF workbook.rows[r].isTransaction
            THEN /\ workbook.hidden[r]
                 /\ \E c \in 1..Len(workbook.rows[r].values) :
                      /\ FilledColumns(r) = {c}
                      /\ ColumnMonth(c) =
                            [year |-> calendar[workbook.rows[r].date[1]].year,
                             month |-> calendar[workbook.rows[r].date[1]].month + 1]
                      /\ \E k \in 1..Len(storeRecords) :
                           /\ storeRecords[k].accountId = workbook.rows[r].accountId
                           /\ storeRecords[k].description = workbook.rows[r].description
                           /\ workbook.rows[r].values[c] =
                                 Hundredths(parseFloat(storeRecords[k].amount).num)
            ELSE ~workbook.hidden[r]

\* C21: two runs of generateStatementOfActivity over the same categorized
\* records write the same rows in the same order with the same values; what
\* is written depends on nothing but the records and the chart.
C21_SameRecordsSameWorkbook ==
    (firstWorkbook.written /\ sPc = "written") => workbook = firstWorkbook


\* C22: getToken never fails: a call that finds the budget of the window used
\* up is suspended, and every suspended call returns in the end.
C22_GetTokenAlwaysReturns ==
    /\ [](lPc # "failed")
    /\ (lPc = "sleeping") ~> (lPc = "idle")

\* a call found the budget used up, slept and returned
C22_Witness ==
    /\ waited >= 1
    /\ lPc = "idle"
    /\ Len(returnTimes) > maxTokens

\* C23: with a caller that awaits each call before the next, no time interval
\* of length refillInterval holds more than maxTokens returns of getToken: any
\* maxTokens + 1 returns are spread over at least refillInterval.
C23_NoIntervalOverBudget ==
    \A j, k \in 1..Len(returnTimes) :
        k - j >= maxTokens => returnTimes[k] - returnTimes[j] >= refillInterval


\* C24: in fetchAllTransactions every page request after the first carries as
\* cursor the id of the last item of the page before it, and the loop ends
\* exactly when a response reports that there are no further pages.
C24_CursorFollowsLastItem ==
    /\ \A k \in 2..Len(pageLog) :
         LET previous == pageLog[k - 1].response.data
         IN  /\ Len(previous) > 0
             /\ pageLog[k].after = previous[Len(previous)]
    /\ iPc = "write" =>
         /\ Len(pageLog) > 0
         /\ pageLog[Len(pageLog)].response.ok
         /\ ~pageLog[Len(pageLog)].response.has_more
    /\ (iPc = "page" /\ Len(pageLog) > 0 /\ ~pageLog[Len(pageLog)].response.has_more) => ~hasMore

\* C25: without HCB_TOKEN the script exits with a non-zero status before any
\* request is sent to the ledger API and before the output file is written.
C25_NoTokenNoRequest ==
    hcbToken = "" =>
        /\ requestCount = 0
        /\ ~outputFile.exists
        /\ iPc \in {"start", "exited"}
        /\ iPc = "exited" => exitCode = 1

\* the script was started without a token and has exited
C25_Witness ==
    /\ hcbToken = ""
    /\ Len(counterspellsData) > 0
    /\ iPc = "exited"
    /\ exitCode = 1

\* C29: after each organization is processed, all_transactions.json holds every
\* organization processed so far, in input order, each with the transactions
\* fetched for it; a failure while organization k is processed leaves the file
\* with organizations 1..k-1.
C29_FileHoldsProcessedOrganizations ==
    LET content == outputFile.content
    IN  /\ iPc \in {"org", "done"} => Len(content) = orgIndex - 1
        /\ \A j \in 1..Len(content) :
             /\ content[j].id = counterspellsData[j]
             /\ content[j].transactions = delivered[j]
        /\ \A k \in failedOrgs : Len(content) < k


\* C26: processed.csv is append-only within a run: after every step the content
\* it had before is a prefix of its content; no header and no row is rewritten,
\* truncated or deleted.
C26_StoreAppendOnly ==
    [][ /\ storeExists => (storeExists' /\ header' = header)
        /\ Len(rows') >= Len(rows)
        /\ SubSeq(rows', 1, Len(rows)) = rows ]_vars

\* a line was appended after a line the file already held
C26_Witness ==
    /\ pc = "appended"
    /\ Len(rows) >= 2

\* the fields of a stored line that come from the transaction alone
RowIsOf(line, transaction) ==
    LET written == csvLine(transaction, "", "")
    IN  \A f \in {1, 2, 5, 6, 7} : line[f] = written[f]

\* C27: the append precedes the observation: every key in the Set of processed
\* keys has its row in processed.csv, read from it when the run started or
\* appended for its transaction in this run; when the append fails, the fault
\* ends the run and the key is not in the Set.
C27_AppendBeforeObservation ==
    /\ \A key \in processedTransactions :
         \/ \E r \in 1..Len(rows) : keyOfStoreRecord(variant, header, rows[r]) = key
         \/ \E k \in appendedFor :
              /\ key = keyOfTransaction(variant, transactions[k])
              /\ \E r \in 1..Len(rows) : RowIsOf(rows[r], transactions[k])
    /\ (pc = "failed" /\ error = "IOFault") => transactionKey \notin processedTransactions

\* the append for a transaction failed after an earlier one was appended and observed
C27_Witness ==
    /\ pc = "failed"
    /\ error = "IOFault"
    /\ appendedFor # {}
    /\ processedTransactions # {}

\* C28: an input without transaction records makes processTransactions abort
\* with an input fault, before any call of the classifier and before
\* processed.csv is created or written.
C28_EmptyInputAborts ==
    Len(inputFile) = 0 =>
        /\ calls = 0
        /\ presented = <<>>
        /\ ~storeExists
        /\ rows = <<>>
        /\ pc \in {"idle", "failed"}
        /\ pc = "failed" => error = "InputFault"

\* a run over an input without records has aborted
C28_Witness ==
    /\ Len(inputFile) = 0
    /\ run >= 1
    /\ pc = "failed"
    /\ error = "InputFault"


\* C30: every data row appended to processed.csv has exactly as many fields as
\* its header row, also for an input in which only some transactions have a
\* receipt URL.
C30_RowsAsWideAsHeader ==
    \A k \in 1..Len(csvRows) : Len(csvRows[k]) = Len(csvHeader)


\* C31: every row appended to processed.csv carries an accountId that is the id
\* of an account of the chart of accounts, whatever id the classifier returns.
C31_StoredAccountIdInChart ==
    \A r \in 1..Len(rows) : \E id \in AccountIds : rows[r][4] = escapeCsvField(<<id>>)


\* C34: two different account ids of the chart of accounts never resolve to the
\* same account name: the name getFullAccountName returns for an id of the
\* chart is the name of no other id of the chart.
C34_ResolvedNameIdentifiesAccount ==
    (rPc = "done" /\ rAccountId \in AccountIds) =>
        \A id \in AccountIds \ {rAccountId} : getFullAccountName(id) # rResult


\* C32: amounts are conserved in the statement: in every month column the
\* total of the Income root plus the total of the Expenses root is the sum of
\* the amounts of all records of the store dated in that month, whatever
\* accountId they carry.
C32_AmountsConserved ==
    workbook.written =>
        \A c \in 1..Len(sortedMonthsArray) :
            workbook.rows[SummaryRowOf("4000")].values[c].hundredths
              + workbook.rows[SummaryRowOf("5000")].values[c].hundredths =
                SumOfAmounts(storeRecords,
                    {k \in 1..Len(storeRecords) :
                        DatedMonth(storeRecords[k]) = sortedMonthsArray[c]})

\* C33: every record of the store appears as exactly one transaction detail
\* row of the grid, also when its accountId names an account that has
\* subAccounts or an id that is not in the chart: there are as many detail rows
\* with the account and description of a record as there are such records.
C33_EveryRecordHasItsDetailRow ==
    workbook.written =>
        \A k \in 1..Len(storeRecords) :
            Cardinality({r \in 1..Len(workbook.rows) :
                            /\ workbook.rows[r].isTransaction
                            /\ workbook.rows[r].accountId = storeRecords[k].accountId
                            /\ workbook.rows[r].description = storeRecords[k].description})
              = Cardinality({j \in 1..Len(storeRecords) : storeRecords[j] = storeRecords[k]})


\* C35: fetchAllTransactions returns every transaction of every page it fetched
\* successfully: when the request for a later page fails, the transactions of
\* the earlier pages are still returned and saved for the organization, and the
\* failure is not turned into an empty result.
C35_FetchedPagesAreReturned ==
    /\ iPc = "write" =>
         /\ fetched = delivered[orgIndex]
         /\ orgIndex \notin failedOrgs
    /\ \A j \in 1..Len(organizations) : organizations[j].transactions = delivered[j]

\* C36: the pagination loop of fetchAllTransactions makes progress: no two
\* requests of a call carry the same cursor, also when a response reports more
\* pages together with an empty page.
C36_NoCursorTwice ==
    \A j, k \in 1..Len(pageLog) : j # k => pageLog[j].after # pageLog[k].after

\* C37: across a failure and a restart of the import script the organizations
\* recorded in all_transactions.json never become fewer: an organization the
\* interrupted run saved is in the file after every write of the restarted run.
C37_SavedOrganizationsStay ==
    savedEarlier \subseteq {outputFile.content[j].id : j \in 1..Len(outputFile.content)}


\* the scalar leaves of an object with their paths: the path of a property
\* joins the keys with dots, the n-th item of an array of objects has the key
\* of the array followed by n
RECURSIVE LeafValues(_, _)
LeafValues(obj, parentPath) ==
    UNION { LET value == obj.fields[k].value
                newPath == newPathOf(parentPath, obj.fields[k].key)
            IN  IF value.type = "string" THEN {[path |-> newPath, value |-> value]}
                ELSE IF value.type = "object" THEN LeafValues(value, newPath)
                ELSE UNION { IF value.items[n].type = "object"
                             THEN LeafValues(value.items[n], arrayItemPrefix(newPath, n))
                             ELSE {}
                           : n \in 1..Len(value.items) }
          : k \in 1..Len(obj.fields) }

\* the number of fields of a line of CSV: the commas outside quotes, plus one
RECURSIVE CountFields(_, _)
CountFields(line, quoted) ==
    IF line = <<>> THEN 1
    ELSE IF Head(line) = QUOTE THEN CountFields(Tail(line), ~quoted)
    ELSE IF Head(line) = "," /\ ~quoted THEN 1 + CountFields(Tail(line), quoted)
    ELSE CountFields(Tail(line), quoted)

\* C38: in the export, for every transaction and every scalar leaf path that
\* getAllPaths collects from it, getValueByPath returns the value stored at
\* that path, also when a key on the path contains a digit; and every row of
\* the CSV has as many fields as the header.
C38_ExportKeepsValues ==
    xPc = "written" =>
        /\ \A k \in 1..Len(allTransactions) :
             \A leaf \in LeafValues(allTransactions[k], <<>>) :
                /\ leaf.path \in getAllPaths(allTransactions[k], <<>>)
                /\ getValueByPath(allTransactions[k], leaf.path) = leaf.value
        /\ \A r \in 1..Len(exportFile.lines) :
             CountFields(exportFile.lines[r], FALSE) = CountFields(exportFile.lines[1], FALSE)

====
